---- MODULE Spec2Model ----
(***************************************************************************)
(* Model of the extraction-with-fallback pipeline:                         *)
(*   ModelSelector  (src/app/pipeline/model_selector.py)                   *)
(*   LLMExtractor   (src/app/pipeline/extractor.py)                        *)
(* One ModelSelector and one LLMExtractor built on it, used by a single    *)
(* synchronous caller.  A provider invocation and the back-off sleep of    *)
(* the retry decorator are the suspension points, so one pass of extract   *)
(* is split into FirstAttempt / ConsiderFallback / FallbackAttempt and the *)
(* decorator's decision is the action Retry.                               *)
(***************************************************************************)
EXTENDS Integers, Sequences, FiniteSets, TLC

\* ------------------------------------------------------------------ bounds
MaxCalls == 2          \* extract calls made on the orchestrator
MaxRetriesArg == 3     \* largest max_retries value passed to the constructor
MaxSelectorCalls == 3  \* direct calls made on a selector
MaxChunks == 6         \* pieces in an exhaustively built response text
MaxLines == 3          \* lines in a fenced response text
MaxBatch == 3          \* profiles in a batch handed to score_profiles
MaxAbstracts == 3      \* abstracts in a batch handed to extract_and_rank_profiles
MaxEntries == 2        \* top-level entries of a document handed to json_to_excel

\* ------------------------------------------------------- program constants
MaxAttempts == 3       \* stop_after_attempt(3)

Providers == {"openai", "gemini"}

Other(p) == IF p = "openai" THEN "gemini" ELSE "openai"

\* The two handle classes, and the provider each one talks to.
Handles == {"ChatOpenAI", "ChatGoogleGenerativeAI"}

ProviderOf(h) ==
    CASE h = "ChatOpenAI" -> "openai"
      [] h = "ChatGoogleGenerativeAI" -> "gemini"
      [] OTHER -> "None"

\* What a provider invocation can produce: an exception, or a response text
\* of one of the classes _parse_json / validate_json_structure tell apart.
Responses == {"raise", "empty", "nojson", "garbled", "invalid", "valid"}

NoErr == [kind |-> "none"]
NoData == [by |-> "None", is_valid |-> FALSE]
NoResult == [status |-> "none", data |-> NoData, error |-> NoErr]
NoKeyStatus == [openai |-> FALSE, gemini |-> FALSE]
NoSelOut == [op |-> "none", status |-> "none", model |-> "None", error |-> NoErr,
             tried |-> <<>>, keys |-> NoKeyStatus]
NoParse == [status |-> "none"]
NoScore == [status |-> "none"]
NoScored == [status |-> "none"]
NoExport == [layout |-> "none"]

VARIABLES
    openai_api_key,       \* ModelSelector.openai_api_key is set (truthy)
    google_api_key,       \* ModelSelector.google_api_key is set (truthy)
    current_model,        \* ModelSelector.current_model
    init_trace,           \* constructions attempted by get_model_with_fallback
    built,                \* provider classes whose construction was ever attempted
    pc,                   \* position of the caller
    model,                \* LLMExtractor.model (the handle)
    model_type,           \* LLMExtractor.model_type
    max_retries,          \* LLMExtractor.max_retries
    ctor_error,           \* exception raised by LLMExtractor.__init__
    calls,                \* extract calls started so far
    passes,               \* tenacity attempt number of the running call
    e,                    \* exception caught from the first attempt of the pass
    fallback_model_type,  \* local of extract
    pass_start,           \* model_type when the running pass began
    invoked,              \* providers invoked in the running pass, in order
    ever_invoked,         \* providers invoked since construction
    invocations,          \* provider invocations in the running call
    switches,             \* assignments of a new provider in the running call
    raised,               \* exception raised by the last pass
    passlog,              \* outcome of every pass of the running call
    result,               \* what the last extract call delivered
    sel_out,              \* what the last direct call on the selector returned
    sel_calls,            \* direct calls made on the selector
    raw,                  \* the response text handed to _parse_json
    parse_out,            \* what _parse_json did with it
    current_year,         \* datetime.now().year
    heap,                 \* the profile dictionaries, by object identity
    profiles,             \* the caller's list of profiles (object identities)
    score_out,            \* what the last direct calculate_score call returned
    scored,               \* what score_profiles returned
    export,               \* the layout json_to_excel chose for its last document
    abstracts,            \* the batch given to extract_and_rank_profiles
    stage,                \* position of the ranking caller
    warned,               \* indices of the abstracts a warning was shown for
    shared,               \* the concurrent extract calls use one LLMExtractor
    orch,                 \* model and model_type of each LLMExtractor in concurrent use
    thr,                  \* each concurrent extract call: position and locals
    ran                   \* (handle, identifier) pairs attempts were run with

selector_vars == <<openai_api_key, google_api_key, current_model>>
extractor_vars == <<model, model_type, max_retries>>
call_vars == <<calls, passes, e, fallback_model_type, pass_start, invoked,
               ever_invoked, invocations, switches, raised, passlog, result>>
vars == <<openai_api_key, google_api_key, current_model, init_trace, built, pc,
          model, model_type, max_retries, ctor_error,
          calls, passes, e, fallback_model_type, pass_start, invoked,
          ever_invoked, invocations, switches, raised, passlog, result,
          sel_out, sel_calls, raw, parse_out,
          current_year, heap, profiles, score_out, scored, export,
          abstracts, stage, warned, shared, orch, thr, ran>>
aux_vars == <<sel_out, sel_calls, raw, parse_out>>
rank_vars == <<current_year, heap, profiles, score_out, scored, export,
               abstracts, stage, warned>>
conc_vars == <<shared, orch, thr, ran>>

\* ------------------------------------------------------------ ModelSelector

\* Faulty variant: the getter of the primary provider builds the handle class
\* of the secondary provider.
GetPrimaryModel_WrongClass(key, cur, initOk) ==
    IF ~key
    THEN [status |-> "ValueError", model |-> "None", current_model |-> cur,
          tried |-> <<>>, error |-> [kind |-> "CredentialError", by |-> "openai"]]
    ELSE IF initOk
    THEN [status |-> "ok", model |-> "ChatGoogleGenerativeAI", current_model |-> "openai",
          tried |-> <<[cls |-> "ChatGoogleGenerativeAI", ok |-> TRUE]>>, error |-> NoErr]
    ELSE [status |-> "Exception", model |-> "None", current_model |-> cur,
          tried |-> <<[cls |-> "ChatGoogleGenerativeAI", ok |-> FALSE]>>,
          error |-> [kind |-> "InitFailed", by |-> "openai"]]

\* get_primary_model: key the credential is set, cur the current marker,
\* initOk whether ChatOpenAI(...) returns rather than raises.
GetPrimaryModel(key, cur, initOk) ==
    IF ~key
    THEN [status |-> "ValueError", model |-> "None", current_model |-> cur,
          tried |-> <<>>, error |-> [kind |-> "CredentialError", by |-> "openai"]]
    ELSE IF initOk
    THEN [status |-> "ok", model |-> "ChatOpenAI", current_model |-> "openai",
          tried |-> <<[cls |-> "ChatOpenAI", ok |-> TRUE]>>, error |-> NoErr]
    ELSE [status |-> "Exception", model |-> "None", current_model |-> cur,
          tried |-> <<[cls |-> "ChatOpenAI", ok |-> FALSE]>>,
          error |-> [kind |-> "InitFailed", by |-> "openai"]]

\* Faulty variant: the marker is set before the constructor is called, so a
\* failed construction leaves it changed.
GetFallbackModel_MarksEarly(key, cur, initOk) ==
    IF ~key
    THEN [status |-> "ValueError", model |-> "None", current_model |-> cur,
          tried |-> <<>>, error |-> [kind |-> "CredentialError", by |-> "gemini"]]
    ELSE IF initOk
    THEN [status |-> "ok", model |-> "ChatGoogleGenerativeAI", current_model |-> "gemini",
          tried |-> <<[cls |-> "ChatGoogleGenerativeAI", ok |-> TRUE]>>, error |-> NoErr]
    ELSE [status |-> "Exception", model |-> "None", current_model |-> "gemini",
          tried |-> <<[cls |-> "ChatGoogleGenerativeAI", ok |-> FALSE]>>,
          error |-> [kind |-> "InitFailed", by |-> "gemini"]]

\* get_fallback_model
GetFallbackModel(key, cur, initOk) ==
    IF ~key
    THEN [status |-> "ValueError", model |-> "None", current_model |-> cur,
          tried |-> <<>>, error |-> [kind |-> "CredentialError", by |-> "gemini"]]
    ELSE IF initOk
    THEN [status |-> "ok", model |-> "ChatGoogleGenerativeAI", current_model |-> "gemini",
          tried |-> <<[cls |-> "ChatGoogleGenerativeAI", ok |-> TRUE]>>, error |-> NoErr]
    ELSE [status |-> "Exception", model |-> "None", current_model |-> cur,
          tried |-> <<[cls |-> "ChatGoogleGenerativeAI", ok |-> FALSE]>>,
          error |-> [kind |-> "InitFailed", by |-> "gemini"]]

\* Faulty variant: the gemini entry is computed from the OpenAI key.
ValidateApiKeys_CopiedKey(okey, gkey) == [openai |-> okey, gemini |-> okey]

\* validate_api_keys
ValidateApiKeys(okey, gkey) == [openai |-> okey, gemini |-> gkey]

\* Faulty variant: the secondary branch returns the primary's identifier.
GetModelWithFallback_WrongLabel(okey, gkey, cur, pInit, sInit) ==
    LET p == GetPrimaryModel(okey, cur, pInit)
        pTried == IF okey THEN p.tried ELSE <<>>
        cur1 == IF okey THEN p.current_model ELSE cur
        s == GetFallbackModel(gkey, cur1, sInit)
    IN  IF okey /\ p.status = "ok"
        THEN [status |-> "ok", model |-> p.model, model_type |-> "openai",
              current_model |-> p.current_model, tried |-> pTried, error |-> NoErr]
        ELSE IF gkey
        THEN IF s.status = "ok"
             THEN [status |-> "ok", model |-> s.model, model_type |-> "openai",
                   current_model |-> s.current_model, tried |-> pTried \o s.tried,
                   error |-> NoErr]
             ELSE [status |-> "Exception", model |-> "None", model_type |-> "None",
                   current_model |-> s.current_model, tried |-> pTried \o s.tried,
                   error |-> [kind |-> "BothFailed", last |-> s.error]]
        ELSE [status |-> "Exception", model |-> "None", model_type |-> "None",
              current_model |-> cur1, tried |-> pTried,
              error |-> [kind |-> "NoKeys"]]

\* Faulty variant: a primary construction failure is not followed by the early
\* return, so the secondary is built even after the primary succeeded.
GetModelWithFallback_AlwaysSecondary(okey, gkey, cur, pInit, sInit) ==
    LET p == GetPrimaryModel(okey, cur, pInit)
        pTried == IF okey THEN p.tried ELSE <<>>
        cur1 == IF okey THEN p.current_model ELSE cur
        s == GetFallbackModel(gkey, cur1, sInit)
    IN  IF gkey /\ s.status = "ok"
        THEN [status |-> "ok", model |-> s.model, model_type |-> "gemini",
              current_model |-> s.current_model, tried |-> pTried \o s.tried,
              error |-> NoErr]
        ELSE IF okey /\ p.status = "ok"
        THEN [status |-> "ok", model |-> p.model, model_type |-> "openai",
              current_model |-> p.current_model, tried |-> pTried, error |-> NoErr]
        ELSE [status |-> "Exception", model |-> "None", model_type |-> "None",
              current_model |-> cur1, tried |-> pTried \o s.tried,
              error |-> [kind |-> "NoKeys"]]

\* Faulty variant: with no usable credential a primary handle is returned
\* instead of raising.
GetModelWithFallback_DefaultPrimary(okey, gkey, cur, pInit, sInit) ==
    LET p == GetPrimaryModel(okey, cur, pInit)
        pTried == IF okey THEN p.tried ELSE <<>>
        cur1 == IF okey THEN p.current_model ELSE cur
        s == GetFallbackModel(gkey, cur1, sInit)
    IN  IF okey /\ p.status = "ok"
        THEN [status |-> "ok", model |-> p.model, model_type |-> "openai",
              current_model |-> p.current_model, tried |-> pTried, error |-> NoErr]
        ELSE IF gkey
        THEN IF s.status = "ok"
             THEN [status |-> "ok", model |-> s.model, model_type |-> "gemini",
                   current_model |-> s.current_model, tried |-> pTried \o s.tried,
                   error |-> NoErr]
             ELSE [status |-> "Exception", model |-> "None", model_type |-> "None",
                   current_model |-> s.current_model, tried |-> pTried \o s.tried,
                   error |-> [kind |-> "BothFailed", last |-> s.error]]
        ELSE [status |-> "ok", model |-> "ChatOpenAI", model_type |-> "openai",
              current_model |-> "openai", tried |-> pTried, error |-> NoErr]

\* get_model_with_fallback: pInit / sInit are the outcomes the two
\* constructors would have if they were called.
GetModelWithFallback(okey, gkey, cur, pInit, sInit) ==
    LET p == GetPrimaryModel(okey, cur, pInit)
        pTried == IF okey THEN p.tried ELSE <<>>
        cur1 == IF okey THEN p.current_model ELSE cur
        s == GetFallbackModel(gkey, cur1, sInit)
    IN  IF okey /\ p.status = "ok"
        THEN [status |-> "ok", model |-> p.model, model_type |-> "openai",
              current_model |-> p.current_model, tried |-> pTried, error |-> NoErr]
        ELSE IF gkey
        THEN IF s.status = "ok"
             THEN [status |-> "ok", model |-> s.model, model_type |-> "gemini",
                   current_model |-> s.current_model, tried |-> pTried \o s.tried,
                   error |-> NoErr]
             ELSE [status |-> "Exception", model |-> "None", model_type |-> "None",
                   current_model |-> s.current_model, tried |-> pTried \o s.tried,
                   error |-> [kind |-> "BothFailed", last |-> s.error]]
        ELSE [status |-> "Exception", model |-> "None", model_type |-> "None",
              current_model |-> cur1, tried |-> pTried,
              error |-> [kind |-> "NoKeys"]]

\* ------------------------------------------------------------- LLMExtractor

\* A fresh ModelSelector, no LLMExtractor yet.
SelectorInit ==
    /\ openai_api_key \in BOOLEAN
    /\ google_api_key \in BOOLEAN
    /\ current_model = "openai"
    /\ init_trace = <<>>
    /\ built = {}
    /\ pc = "new"
    /\ model = "None"
    /\ model_type = "None"
    /\ max_retries = 0
    /\ ctor_error = NoErr
    /\ calls = 0
    /\ passes = 0
    /\ e = NoErr
    /\ fallback_model_type = "None"
    /\ pass_start = "None"
    /\ invoked = <<>>
    /\ ever_invoked = {}
    /\ invocations = 0
    /\ switches = 0
    /\ raised = NoErr
    /\ passlog = <<>>
    /\ result = NoResult
    /\ sel_out = NoSelOut
    /\ sel_calls = 0
    /\ parse_out = NoParse
    /\ shared = FALSE
    /\ orch = <<>>
    /\ thr = <<>>
    /\ ran = {}

\* Nothing is being scored, ranked or exported.
RankOff ==
    /\ current_year = 0
    /\ heap = <<>>
    /\ profiles = <<>>
    /\ score_out = NoScore
    /\ scored = NoScored
    /\ export = NoExport
    /\ abstracts = <<>>
    /\ stage = "off"
    /\ warned = {}

Init == SelectorInit /\ raw = <<>> /\ RankOff

\* The handle classes a sequence of construction attempts names.
Classes(tr) == {tr[i].cls : i \in DOMAIN tr}

\* LLMExtractor.__init__
NewExtractor(mr, pInit, sInit) ==
    /\ pc = "new"
    /\ LET r == GetModelWithFallback(openai_api_key, google_api_key,
                                     current_model, pInit, sInit)
       IN  /\ max_retries' = mr
           /\ current_model' = r.current_model
           /\ init_trace' = r.tried
           /\ built' = built \cup Classes(r.tried)
           /\ model' = r.model
           /\ model_type' = r.model_type
           /\ ctor_error' = r.error
           /\ pc' = IF r.status = "ok" THEN "idle" ELSE "ctor_failed"
    /\ UNCHANGED <<openai_api_key, google_api_key>>
    /\ UNCHANGED call_vars
    /\ UNCHANGED aux_vars
    /\ UNCHANGED rank_vars
    /\ UNCHANGED conc_vars

\* model.invoke(formatted_prompt): the handle h answers with response class r.
Invoke(h, r) ==
    IF r = "raise"
    THEN [raised |-> TRUE, content |-> [by |-> ProviderOf(h), class |-> "none"]]
    ELSE [raised |-> FALSE, content |-> [by |-> ProviderOf(h), class |-> r]]

\* _parse_json, by the class of the response text: which exception it raises,
\* or the parsed object (well_formed: the validator will accept it).
ParseJsonClass(content) ==
    CASE content.class = "empty" ->
           [raised |-> TRUE, kind |-> "EmptyResponse", value |-> NoData]
      [] content.class = "nojson" ->
           [raised |-> TRUE, kind |-> "NoJsonFound", value |-> NoData]
      [] content.class = "garbled" ->
           [raised |-> TRUE, kind |-> "JsonRepairFailed", value |-> NoData]
      [] OTHER ->
           [raised |-> FALSE, kind |-> "none",
            value |-> [by |-> content.by, well_formed |-> content.class = "valid"]]

\* validate_json_structure (pipeline/schema.py)
ValidateJsonStructure(parsed) ==
    [is_valid |-> parsed.well_formed,
     data |-> [by |-> parsed.by, is_valid |-> parsed.well_formed]]

AttemptFailed(kind, h) ==
    [ok |-> FALSE, data |-> NoData, error |-> [kind |-> kind, by |-> ProviderOf(h)]]

\* Faulty variant: validation.is_valid is not checked before returning the data.
RunSingleExtractionAttempt_NoValidation(h, mt, r) ==
    LET response == Invoke(h, r)
        parsed == ParseJsonClass(response.content)
        validation == ValidateJsonStructure(parsed.value)
    IN  IF response.raised THEN AttemptFailed("InvokeError", h)
        ELSE IF parsed.raised THEN AttemptFailed(parsed.kind, h)
        ELSE [ok |-> TRUE, data |-> validation.data, error |-> NoErr]

\* _run_single_extraction_attempt(text, model, model_type); r is what the
\* provider behind the handle does on this invocation.
RunSingleExtractionAttempt(h, mt, r) ==
    LET response == Invoke(h, r)
        parsed == ParseJsonClass(response.content)
        validation == ValidateJsonStructure(parsed.value)
    IN  IF response.raised THEN AttemptFailed("InvokeError", h)
        ELSE IF parsed.raised THEN AttemptFailed(parsed.kind, h)
        ELSE IF ~validation.is_valid THEN AttemptFailed("ValidationFailed", h)
        ELSE [ok |-> TRUE, data |-> validation.data, error |-> NoErr]

\* Faulty variant: the fallback direction is chosen without looking at the keys.
FallbackModelType_NoKeyCheck(mt, key_status) ==
    IF mt = "openai" THEN "gemini"
    ELSE IF mt = "gemini" THEN "openai"
    ELSE "None"

\* The fallback direction chosen in the except branch of extract.
FallbackModelType(mt, key_status) ==
    IF mt = "openai" /\ key_status.gemini THEN "gemini"
    ELSE IF mt = "gemini" /\ key_status.openai THEN "openai"
    ELSE "None"

\* Faulty variant: the identifier is updated but the handle is not replaced.
FallbackSwap_TypeOnly(g, fmt) == [model |-> model, model_type |-> fmt]

\* Faulty variant: the new handle is used for the attempt only, the
\* identifier stays with the provider the pass began with.
FallbackSwap_NotKept(g, fmt) == [model |-> g.model, model_type |-> model_type]

\* Faulty variant: the handle is swapped but the identifier is not updated.
FallbackSwap_StaleType(g, fmt) == [model |-> g.model, model_type |-> Other(fmt)]

\* self.model = <the handle just built>; self.model_type = <its provider>
FallbackSwap(g, fmt) == [model |-> g.model, model_type |-> fmt]

\* raise Exception(f"Extraction failed with {self.model_type}: {str(e)}")
SingleError(mt, err) ==
    [kind |-> "single", primary_label |-> mt, primary |-> err,
     fallback_label |-> "None", fallback |-> NoErr]

\* raise Exception("Extraction failed after trying all available models. "
\*   f"Primary error ({self.model_type}): ... | Fallback error ({fallback_model_type}): ...")
CombinedError(mt, err, fmt, ferr) ==
    [kind |-> "combined", primary_label |-> mt, primary |-> err,
     fallback_label |-> fmt, fallback |-> ferr]

\* Faulty variant: the decorator allows one attempt more.
StopAfterAttempt_OneMore(attempt_number) == attempt_number >= MaxAttempts + 1

\* Faulty variant: the decorator has no stop condition.
StopAfterAttempt_Never(attempt_number) == FALSE

\* Faulty variant: the decorator gives up one attempt early.
StopAfterAttempt_OneLess(attempt_number) == attempt_number >= MaxAttempts - 1

\* stop=stop_after_attempt(3)
StopAfterAttempt(attempt_number) == attempt_number >= MaxAttempts

PassEntry(outcome, inv, fmt) ==
    [outcome |-> outcome, invoked |-> inv, fallback |-> fmt]

\* The caller enters the retry-wrapped extract(text).
CallExtract ==
    /\ pc = "idle"
    /\ calls < MaxCalls
    /\ calls' = calls + 1
    /\ passes' = 1
    /\ e' = NoErr
    /\ fallback_model_type' = "None"
    /\ pass_start' = model_type
    /\ invoked' = <<>>
    /\ invocations' = 0
    /\ switches' = 0
    /\ raised' = NoErr
    /\ passlog' = <<>>
    /\ result' = NoResult
    /\ pc' = "attempt1"
    /\ UNCHANGED <<selector_vars, extractor_vars, init_trace, built, ctor_error,
                   ever_invoked>>
    /\ UNCHANGED aux_vars
    /\ UNCHANGED rank_vars
    /\ UNCHANGED conc_vars

\* try: return self._run_single_extraction_attempt(text, self.model, self.model_type)
FirstAttempt(r) ==
    /\ pc = "attempt1"
    /\ LET a == RunSingleExtractionAttempt(model, model_type, r)
           inv == Append(invoked, ProviderOf(model))
       IN  /\ invoked' = inv
           /\ ever_invoked' = ever_invoked \cup {ProviderOf(model)}
           /\ invocations' = invocations + 1
           /\ IF a.ok
              THEN /\ result' = [status |-> "Done", data |-> a.data, error |-> NoErr]
                   /\ passlog' = Append(passlog, PassEntry("Done", inv, "None"))
                   /\ pc' = "idle"
                   /\ e' = e
              ELSE /\ e' = a.error
                   /\ pc' = "consider"
                   /\ UNCHANGED <<result, passlog>>
    /\ UNCHANGED <<selector_vars, extractor_vars, init_trace, built, ctor_error,
                   calls, passes, fallback_model_type, pass_start, switches, raised>>
    /\ UNCHANGED aux_vars
    /\ UNCHANGED rank_vars
    /\ UNCHANGED conc_vars

\* The except branch of extract up to the second invocation: query the keys,
\* pick the fallback direction, build the other handle and swap it in.
ConsiderFallback(initOk) ==
    /\ pc = "consider"
    /\ LET key_status == ValidateApiKeys(openai_api_key, google_api_key)
           fmt == FallbackModelType(model_type, key_status)
           g == IF fmt = "gemini"
                THEN GetFallbackModel(google_api_key, current_model, initOk)
                ELSE GetPrimaryModel(openai_api_key, current_model, initOk)
       IN  /\ fallback_model_type' = fmt
           /\ IF fmt = "None"
              THEN /\ raised' = SingleError(model_type, e)
                   /\ passlog' = Append(passlog, PassEntry("single", invoked, fmt))
                   /\ pc' = "retry"
                   /\ UNCHANGED <<model, model_type, current_model, built, switches>>
              ELSE /\ built' = built \cup Classes(g.tried)
                   /\ current_model' = g.current_model
                   /\ IF g.status = "ok"
                      THEN /\ model' = FallbackSwap(g, fmt).model
                           /\ model_type' = FallbackSwap(g, fmt).model_type
                           /\ switches' = switches + 1
                           /\ pc' = "attempt2"
                           /\ UNCHANGED <<raised, passlog>>
                      ELSE /\ raised' = CombinedError(model_type, e, fmt, g.error)
                           /\ passlog' = Append(passlog, PassEntry("combined", invoked, fmt))
                           /\ pc' = "retry"
                           /\ UNCHANGED <<model, model_type, switches>>
    /\ UNCHANGED <<openai_api_key, google_api_key, max_retries, init_trace, ctor_error,
                   calls, passes, e, pass_start, invoked, ever_invoked,
                   invocations, result>>
    /\ UNCHANGED aux_vars
    /\ UNCHANGED rank_vars
    /\ UNCHANGED conc_vars

\* return self._run_single_extraction_attempt(...) inside the fallback try,
\* and its except branch.
FallbackAttempt(r) ==
    /\ pc = "attempt2"
    /\ LET a == RunSingleExtractionAttempt(model, model_type, r)
           inv == Append(invoked, ProviderOf(model))
       IN  /\ invoked' = inv
           /\ ever_invoked' = ever_invoked \cup {ProviderOf(model)}
           /\ invocations' = invocations + 1
           /\ IF a.ok
              THEN /\ result' = [status |-> "Done", data |-> a.data, error |-> NoErr]
                   /\ passlog' = Append(passlog, PassEntry("Done", inv, fallback_model_type))
                   /\ pc' = "idle"
                   /\ raised' = raised
              ELSE /\ raised' = CombinedError(model_type, e, fallback_model_type, a.error)
                   /\ passlog' = Append(passlog, PassEntry("combined", inv, fallback_model_type))
                   /\ pc' = "retry"
                   /\ result' = result
    /\ UNCHANGED <<selector_vars, extractor_vars, init_trace, built, ctor_error,
                   calls, passes, e, fallback_model_type, pass_start, switches>>
    /\ UNCHANGED aux_vars
    /\ UNCHANGED rank_vars
    /\ UNCHANGED conc_vars

\* The @retry decorator after a pass raised: stop and raise to the caller, or
\* sleep and run the body of extract again.
Retry ==
    /\ pc = "retry"
    /\ IF StopAfterAttempt(passes)
       THEN /\ result' = [status |-> "Failed", data |-> NoData, error |-> raised]
            /\ pc' = "idle"
            /\ UNCHANGED <<passes, e, fallback_model_type, pass_start, invoked>>
       ELSE /\ passes' = passes + 1
            /\ e' = NoErr
            /\ fallback_model_type' = "None"
            /\ pass_start' = model_type
            /\ invoked' = <<>>
            /\ pc' = "attempt1"
            /\ result' = result
    /\ UNCHANGED <<selector_vars, extractor_vars, init_trace, built, ctor_error,
                   calls, ever_invoked, invocations, switches, raised, passlog>>
    /\ UNCHANGED aux_vars
    /\ UNCHANGED rank_vars
    /\ UNCHANGED conc_vars

\* The steps of a call that is under way.
CallStep ==
    \/ \E r \in Responses : FirstAttempt(r)
    \/ \E initOk \in BOOLEAN : ConsiderFallback(initOk)
    \/ \E r \in Responses : FallbackAttempt(r)
    \/ Retry

Next ==
    \/ \E mr \in 1..MaxRetriesArg, pInit \in BOOLEAN, sInit \in BOOLEAN :
          NewExtractor(mr, pInit, sInit)
    \/ CallExtract
    \/ CallStep

Spec == Init /\ [][Next]_vars

\* extract is synchronous: every invocation has a timeout and the back-off
\* sleep is bounded (max=10), so a call under way always takes its next step.
FairSpec == Spec /\ WF_vars(CallStep)

\* ------------------------------------------- extract called from two threads

\* The two concurrent callers of extract.
Threads == {1, 2}

\* What the providers do in the concurrent runs: raise, or answer validly.
ConcResponses == {"raise", "valid"}

NoLocals ==
    [pc |-> "idle", passes |-> 0, model |-> "None", model_type |-> "None",
     fallback_model_type |-> "None"]

\* Faulty variant: every caller is handed the same LLMExtractor.
OrchestratorOf_Same(t, sh) == 1

\* The LLMExtractor a caller works on: the one common instance, or its own
\* LLMExtractor(model_selector, ...).
OrchestratorOf(t, sh) == IF sh THEN 1 ELSE t

\* self.model = <the handle the getter returned>
AssignModel(o, g) == [o EXCEPT !.model = g.model]

\* self.model_type = "gemini" / self.model_type = "openai"
AssignModelType(o, fmt) == [o EXCEPT !.model_type = fmt]

\* The (handle, identifier) pairs LLMExtractor.__init__ can leave.
ConstructedPairs(okey, gkey) ==
    {[model |-> r.model, model_type |-> r.model_type] :
        r \in {x \in {GetModelWithFallback(okey, gkey, "openai", pInit, sInit) :
                        pInit \in BOOLEAN, sInit \in BOOLEAN} : x.status = "ok"}}

ConcInit ==
    /\ openai_api_key \in BOOLEAN
    /\ google_api_key \in BOOLEAN
    /\ ConstructedPairs(openai_api_key, google_api_key) # {}
    /\ shared \in BOOLEAN
    /\ orch \in [Threads -> ConstructedPairs(openai_api_key, google_api_key)]
    /\ shared => orch[2] = orch[1]
    /\ current_model = orch[1].model_type
    /\ thr = [t \in Threads |-> NoLocals]
    /\ ran = {}
    /\ init_trace = <<>>
    /\ built = {}
    /\ pc = "off"
    /\ model = "None"
    /\ model_type = "None"
    /\ max_retries = 0
    /\ ctor_error = NoErr
    /\ calls = 0
    /\ passes = 0
    /\ e = NoErr
    /\ fallback_model_type = "None"
    /\ pass_start = "None"
    /\ invoked = <<>>
    /\ ever_invoked = {}
    /\ invocations = 0
    /\ switches = 0
    /\ raised = NoErr
    /\ passlog = <<>>
    /\ result = NoResult
    /\ sel_out = NoSelOut
    /\ sel_calls = 0
    /\ parse_out = NoParse
    /\ raw = <<>>
    /\ RankOff

ConcFrame ==
    /\ UNCHANGED <<openai_api_key, google_api_key, init_trace, built, pc,
                   extractor_vars, ctor_error, call_vars, aux_vars, shared>>
    /\ UNCHANGED rank_vars

\* Thread t enters the retry-wrapped extract(text).
Enter(t) ==
    /\ thr[t].pc = "idle"
    /\ thr' = [thr EXCEPT ![t] = [NoLocals EXCEPT !.pc = "load_model",
                                                  !.passes = 1]]
    /\ UNCHANGED <<orch, ran, current_model>>
    /\ ConcFrame

\* The argument self.model of _run_single_extraction_attempt(text, self.model,
\* self.model_type) is evaluated: an attribute load of its own.
LoadModel(t) ==
    /\ thr[t].pc \in {"load_model", "load_model2"}
    /\ thr' = [thr EXCEPT ![t].model = orch[OrchestratorOf(t, shared)].model,
                          ![t].pc = IF thr[t].pc = "load_model"
                                    THEN "load_type" ELSE "load_type2"]
    /\ UNCHANGED <<orch, ran, current_model>>
    /\ ConcFrame

\* The argument self.model_type is evaluated after it.
LoadModelType(t) ==
    /\ thr[t].pc \in {"load_type", "load_type2"}
    /\ thr' = [thr EXCEPT ![t].model_type = orch[OrchestratorOf(t, shared)].model_type,
                          ![t].pc = IF thr[t].pc = "load_type"
                                    THEN "attempt1" ELSE "attempt2"]
    /\ UNCHANGED <<orch, ran, current_model>>
    /\ ConcFrame

\* The first attempt runs with the arguments as loaded.
Attempt1(t, r) ==
    /\ thr[t].pc = "attempt1"
    /\ LET a == RunSingleExtractionAttempt(thr[t].model, thr[t].model_type, r)
       IN  thr' = [thr EXCEPT ![t].pc = IF a.ok THEN "returned" ELSE "direction"]
    /\ ran' = ran \cup {[model |-> thr[t].model, model_type |-> thr[t].model_type]}
    /\ UNCHANGED <<orch, current_model>>
    /\ ConcFrame

\* if self.model_type == "openai" and key_status.get("gemini"): ...
Direction(t) ==
    /\ thr[t].pc = "direction"
    /\ LET key_status == ValidateApiKeys(openai_api_key, google_api_key)
           fmt == FallbackModelType(orch[OrchestratorOf(t, shared)].model_type,
                                    key_status)
       IN  thr' = IF fmt = "gemini"
                  THEN [thr EXCEPT ![t].fallback_model_type = fmt, ![t].pc = "build"]
                  ELSE [thr EXCEPT ![t].pc = "direction2"]
    /\ UNCHANGED <<orch, ran, current_model>>
    /\ ConcFrame

\* elif self.model_type == "gemini" and key_status.get("openai"): ...
\* if not fallback_model_type: raise
Direction2(t) ==
    /\ thr[t].pc = "direction2"
    /\ LET key_status == ValidateApiKeys(openai_api_key, google_api_key)
           fmt == FallbackModelType(orch[OrchestratorOf(t, shared)].model_type,
                                    key_status)
       IN  thr' = IF fmt = "openai"
                  THEN [thr EXCEPT ![t].fallback_model_type = fmt, ![t].pc = "build"]
                  ELSE [thr EXCEPT ![t].pc = "retry"]
    /\ UNCHANGED <<orch, ran, current_model>>
    /\ ConcFrame

\* self.model = self.model_selector.get_fallback_model() / get_primary_model()
Build(t, initOk) ==
    /\ thr[t].pc = "build"
    /\ LET o == OrchestratorOf(t, shared)
           g == IF thr[t].fallback_model_type = "gemini"
                THEN GetFallbackModel(google_api_key, current_model, initOk)
                ELSE GetPrimaryModel(openai_api_key, current_model, initOk)
       IN  /\ current_model' = g.current_model
           /\ IF g.status = "ok"
              THEN /\ orch' = [orch EXCEPT ![o] = AssignModel(orch[o], g)]
                   /\ thr' = [thr EXCEPT ![t].pc = "store_type"]
              ELSE /\ orch' = orch
                   /\ thr' = [thr EXCEPT ![t].pc = "retry"]
    /\ UNCHANGED ran
    /\ ConcFrame

\* self.model_type = "gemini" / self.model_type = "openai": the statement
\* after the handle's assignment.
StoreModelType(t) ==
    /\ thr[t].pc = "store_type"
    /\ LET o == OrchestratorOf(t, shared)
       IN  orch' = [orch EXCEPT ![o] = AssignModelType(orch[o],
                                                       thr[t].fallback_model_type)]
    /\ thr' = [thr EXCEPT ![t].pc = "load_model2"]
    /\ UNCHANGED <<ran, current_model>>
    /\ ConcFrame

\* The attempt inside the fallback try, with the arguments as loaded.
Attempt2(t, r) ==
    /\ thr[t].pc = "attempt2"
    /\ LET a == RunSingleExtractionAttempt(thr[t].model, thr[t].model_type, r)
       IN  thr' = [thr EXCEPT ![t].pc = IF a.ok THEN "returned" ELSE "retry"]
    /\ ran' = ran \cup {[model |-> thr[t].model, model_type |-> thr[t].model_type]}
    /\ UNCHANGED <<orch, current_model>>
    /\ ConcFrame

\* The @retry decorator of thread t after its pass raised.
RetryPass(t) ==
    /\ thr[t].pc = "retry"
    /\ thr' = IF StopAfterAttempt(thr[t].passes)
              THEN [thr EXCEPT ![t].pc = "raised"]
              ELSE [thr EXCEPT ![t] = [NoLocals EXCEPT
                                          !.pc = "load_model",
                                          !.passes = thr[t].passes + 1]]
    /\ UNCHANGED <<orch, ran, current_model>>
    /\ ConcFrame

ConcNext ==
    \E t \in Threads :
        \/ Enter(t)
        \/ LoadModel(t)
        \/ LoadModelType(t)
        \/ \E r \in ConcResponses : Attempt1(t, r)
        \/ Direction(t)
        \/ Direction2(t)
        \/ \E initOk \in BOOLEAN : Build(t, initOk)
        \/ StoreModelType(t)
        \/ \E r \in ConcResponses : Attempt2(t, r)
        \/ RetryPass(t)

ConcSpec == ConcInit /\ [][ConcNext]_vars

\* ---------------------------------------------------------- _parse_json
\* Texts are sequences of one-character strings; indices are 1-based and 0
\* stands for Python's -1 ("not found").

\* The backtick character (it cannot be written inside a string here).
BT == "BT"

IsSpace(c) == c \in {" ", "\n", "\t", "\r"}

SubSeqFrom(s, i) == SubSeq(s, i, Len(s))

RECURSIVE LStrip(_)
LStrip(s) == IF s # <<>> /\ IsSpace(Head(s)) THEN LStrip(Tail(s)) ELSE s

RECURSIVE RStrip(_)
RStrip(s) ==
    IF s # <<>> /\ IsSpace(s[Len(s)]) THEN RStrip(SubSeq(s, 1, Len(s) - 1)) ELSE s

\* str.strip()
Strip(s) == RStrip(LStrip(s))

\* str.find(c) and str.rfind(c)
RECURSIVE FindFrom(_, _, _)
FindFrom(s, c, i) ==
    IF i > Len(s) THEN 0 ELSE IF s[i] = c THEN i ELSE FindFrom(s, c, i + 1)

Find(s, c) == FindFrom(s, c, 1)

RECURSIVE RFindFrom(_, _, _)
RFindFrom(s, c, i) ==
    IF i < 1 THEN 0 ELSE IF s[i] = c THEN i ELSE RFindFrom(s, c, i - 1)

RFind(s, c) == RFindFrom(s, c, Len(s))

\* str.startswith of the triple-backtick fence
StartsWithFence(s) == Len(s) >= 3 /\ s[1] = BT /\ s[2] = BT /\ s[3] = BT

\* str.split("\n")
RECURSIVE Split(_)
Split(s) ==
    LET k == Find(s, "\n")
    IN  IF k = 0 THEN <<s>>
        ELSE <<SubSeq(s, 1, k - 1)>> \o Split(SubSeqFrom(s, k + 1))

\* "\n".join(lines)
RECURSIVE Join(_)
Join(lines) ==
    IF lines = <<>> THEN <<>>
    ELSE IF Len(lines) = 1 THEN lines[1]
    ELSE lines[1] \o <<"\n">> \o Join(Tail(lines))

\* The for loop over lines: json_lines after the loop, from line i on.
RECURSIVE CollectJsonLines(_, _, _, _)
CollectJsonLines(lines, i, in_json, json_lines) ==
    IF i > Len(lines) THEN json_lines
    ELSE IF StartsWithFence(Strip(lines[i]))
         THEN IF ~in_json
              THEN CollectJsonLines(lines, i + 1, TRUE, json_lines)
              ELSE json_lines
         ELSE CollectJsonLines(lines, i + 1, in_json,
                               IF in_json THEN Append(json_lines, lines[i])
                               ELSE json_lines)

\* Removal of the markdown code block; content is already stripped.
RemoveFence(content) ==
    IF StartsWithFence(content)
    THEN LET lines == Split(content)
             json_lines == CollectJsonLines(lines, 1, FALSE, <<>>)
         IN  IF json_lines # <<>>
             THEN Strip(Join(json_lines))
             ELSE IF lines # <<>> /\ StartsWithFence(Strip(lines[1]))
                  THEN Strip(Join(Tail(lines)))
                  ELSE content
    ELSE content

\* The state of the brace-matching loop.
ScanStart(start_idx) ==
    [end_idx |-> start_idx, brace_count |-> 0, in_string |-> FALSE,
     escape_next |-> FALSE, closed |-> FALSE]

\* Faulty variant: braces are counted inside string literals too.
ScanStep_NoStrings(st, c, i) ==
    IF st.escape_next THEN [st EXCEPT !.escape_next = FALSE]
    ELSE IF c = "\\" THEN [st EXCEPT !.escape_next = TRUE]
    ELSE IF c = "\"" THEN [st EXCEPT !.in_string = ~st.in_string]
    ELSE IF c = "{" THEN [st EXCEPT !.brace_count = st.brace_count + 1]
    ELSE IF c = "}"
         THEN IF st.brace_count - 1 = 0
              THEN [st EXCEPT !.brace_count = 0, !.end_idx = i, !.closed = TRUE]
              ELSE [st EXCEPT !.brace_count = st.brace_count - 1]
         ELSE st

\* One iteration of the loop on character c at index i.
ScanStep(st, c, i) ==
    IF st.escape_next THEN [st EXCEPT !.escape_next = FALSE]
    ELSE IF c = "\\" THEN [st EXCEPT !.escape_next = TRUE]
    ELSE IF c = "\"" THEN [st EXCEPT !.in_string = ~st.in_string]
    ELSE IF ~st.in_string
         THEN IF c = "{" THEN [st EXCEPT !.brace_count = st.brace_count + 1]
              ELSE IF c = "}"
                   THEN IF st.brace_count - 1 = 0
                        THEN [st EXCEPT !.brace_count = 0, !.end_idx = i, !.closed = TRUE]
                        ELSE [st EXCEPT !.brace_count = st.brace_count - 1]
                   ELSE st
         ELSE st

\* Faulty variant: the loop has no break and runs to the end of the text.
RECURSIVE ScanFrom_NoBreak(_, _, _)
ScanFrom_NoBreak(content, i, st) ==
    IF i > Len(content) THEN st
    ELSE ScanFrom_NoBreak(content, i + 1, ScanStep(st, content[i], i))

\* for i in range(start_idx, len(content)), leaving at the break.
RECURSIVE ScanFrom(_, _, _)
ScanFrom(content, i, st) ==
    IF i > Len(content) \/ st.closed THEN st
    ELSE ScanFrom(content, i + 1, ScanStep(st, content[i], i))

Scan(content, start_idx) == ScanFrom(content, start_idx, ScanStart(start_idx))

RECURSIVE Braces(_)
Braces(n) == IF n <= 0 THEN <<>> ELSE <<"}">> \o Braces(n - 1)

\* Faulty variant: an open string literal is not closed before the braces.
Candidate_NoQuote(content, start_idx, st) ==
    IF st.brace_count = 0 /\ st.end_idx > start_idx
    THEN SubSeq(content, start_idx, st.end_idx)
    ELSE SubSeqFrom(content, start_idx)
            \o (IF st.brace_count > 0
                THEN <<"\n">> \o Braces(st.brace_count)
                ELSE <<>>)

\* json_str: the span found by the scan, or the repaired tail.
Candidate(content, start_idx, st) ==
    IF st.brace_count = 0 /\ st.end_idx > start_idx
    THEN SubSeq(content, start_idx, st.end_idx)
    ELSE SubSeqFrom(content, start_idx)
            \o (IF st.brace_count > 0
                THEN (IF st.in_string THEN <<"\"">> ELSE <<>>)
                        \o <<"\n">> \o Braces(st.brace_count)
                ELSE <<>>)

\* --------------------------------------------------------------- json.loads
\* The strict decoder of the json module, as a recogniser that also reports
\* the keys of a top-level object.  An end position 0 means JSONDecodeError.

At(s, i) == IF i >= 1 /\ i <= Len(s) THEN s[i] ELSE "EOF"

IsDigit(c) == c \in {"0", "1", "2", "3", "4", "5", "6", "7", "8", "9"}

IsHex(c) == IsDigit(c) \/ c \in {"a", "b", "c", "d", "e", "f",
                                 "A", "B", "C", "D", "E", "F"}

RECURSIVE SkipWs(_, _)
SkipWs(s, i) == IF IsSpace(At(s, i)) THEN SkipWs(s, i + 1) ELSE i

\* py_scanstring from index i, just after the opening quote: the index after
\* the closing quote.
RECURSIVE StringEnd(_, _)
StringEnd(s, i) ==
    LET c == At(s, i)
        esc == At(s, i + 1)
    IN  IF i > Len(s) THEN 0
        ELSE IF c = "\"" THEN i + 1
        ELSE IF c = "\\"
             THEN IF esc \in {"\"", "\\", "/", "b", "f", "n", "r", "t"}
                  THEN StringEnd(s, i + 2)
                  ELSE IF esc = "u" /\ \A k \in 2..5 : IsHex(At(s, i + k))
                       THEN StringEnd(s, i + 6)
                       ELSE 0
        ELSE IF c \in {"\n", "\t", "\r"} THEN 0
        ELSE StringEnd(s, i + 1)

RECURSIVE DigitsEnd(_, _)
DigitsEnd(s, i) == IF IsDigit(At(s, i)) THEN DigitsEnd(s, i + 1) ELSE i

\* NUMBER_RE: -?(0|[1-9]\d*)(\.\d+)?([eE][-+]?\d+)?
NumberEnd(s, i) ==
    LET i1 == IF At(s, i) = "-" THEN i + 1 ELSE i
        i2 == IF At(s, i1) = "0" THEN i1 + 1
              ELSE IF IsDigit(At(s, i1)) THEN DigitsEnd(s, i1) ELSE 0
        i3 == IF i2 # 0 /\ At(s, i2) = "." /\ IsDigit(At(s, i2 + 1))
              THEN DigitsEnd(s, i2 + 1) ELSE i2
        x == IF At(s, i3 + 1) \in {"+", "-"} THEN i3 + 2 ELSE i3 + 1
        i4 == IF i3 # 0 /\ At(s, i3) \in {"e", "E"} /\ IsDigit(At(s, x))
              THEN DigitsEnd(s, x) ELSE i3
    IN  i4

Literals == {<<"t", "r", "u", "e">>, <<"f", "a", "l", "s", "e">>,
             <<"n", "u", "l", "l">>, <<"N", "a", "N">>,
             <<"I", "n", "f", "i", "n", "i", "t", "y">>,
             <<"-", "I", "n", "f", "i", "n", "i", "t", "y">>}

LiteralEnd(s, i) ==
    LET Here(lit) == /\ i >= 1
                     /\ i + Len(lit) - 1 <= Len(s)
                     /\ SubSeq(s, i, i + Len(lit) - 1) = lit
    IN  IF \E lit \in Literals : Here(lit)
        THEN i + Len(CHOOSE lit \in Literals : Here(lit))
        ELSE 0

RECURSIVE ValueEnd(_, _), MembersEnd(_, _), ElementsEnd(_, _)

\* scan_once at index i: the index after the value.
ValueEnd(s, i) ==
    LET c == At(s, i)
    IN  IF c = "\"" THEN StringEnd(s, i + 1)
        ELSE IF c = "{"
             THEN LET j == SkipWs(s, i + 1)
                  IN  IF At(s, j) = "}" THEN j + 1 ELSE MembersEnd(s, j)
        ELSE IF c = "["
             THEN LET j == SkipWs(s, i + 1)
                  IN  IF At(s, j) = "]" THEN j + 1 ELSE ElementsEnd(s, j)
        ELSE IF LiteralEnd(s, i) # 0 THEN LiteralEnd(s, i)
        ELSE NumberEnd(s, i)

\* JSONObject from the first key on: "key" : value (, "key" : value)* }
MembersEnd(s, j) ==
    IF At(s, j) # "\"" THEN 0
    ELSE LET k == StringEnd(s, j + 1)
             colon == SkipWs(s, k)
             v == SkipWs(s, colon + 1)
             ve == ValueEnd(s, v)
             nxt == SkipWs(s, ve)
         IN  IF k = 0 \/ At(s, colon) # ":" THEN 0
             ELSE IF ve = 0 THEN 0
             ELSE IF At(s, nxt) = "}" THEN nxt + 1
             ELSE IF At(s, nxt) = "," THEN MembersEnd(s, SkipWs(s, nxt + 1))
             ELSE 0

\* JSONArray from the first element on.
ElementsEnd(s, j) ==
    LET ve == ValueEnd(s, j)
        nxt == SkipWs(s, ve)
    IN  IF ve = 0 THEN 0
        ELSE IF At(s, nxt) = "]" THEN nxt + 1
        ELSE IF At(s, nxt) = "," THEN ElementsEnd(s, SkipWs(s, nxt + 1))
        ELSE 0

\* The keys of a decodable object, in order, from the first key at j.
RECURSIVE MemberKeys(_, _)
MemberKeys(s, j) ==
    IF At(s, j) # "\"" THEN <<>>
    ELSE LET k == StringEnd(s, j + 1)
             v == SkipWs(s, SkipWs(s, k) + 1)
             nxt == SkipWs(s, ValueEnd(s, v))
         IN  <<SubSeq(s, j + 1, k - 2)>>
                \o (IF At(s, nxt) = "," THEN MemberKeys(s, SkipWs(s, nxt + 1))
                    ELSE <<>>)

\* json.loads(s): whether it returns, and then the keys of the object.
JsonLoads(s) ==
    LET i == SkipWs(s, 1)
        ve == ValueEnd(s, i)
        ok == ve # 0 /\ SkipWs(s, ve) = Len(s) + 1
    IN  [ok |-> ok,
         keys |-> IF ok /\ At(s, i) = "{" THEN MemberKeys(s, SkipWs(s, i + 1))
                  ELSE <<>>]

\* ------------------------------------------------------------ _parse_json

ParseFailed(status, content) ==
    [status |-> status, content |-> content, start_idx |-> 0,
     scan |-> ScanStart(0), json_str |-> <<>>, first_ok |-> FALSE,
     second_tried |-> FALSE, second_ok |-> FALSE, loads |-> 0,
     parsed_from |-> <<>>, keys |-> <<>>]

\* Faulty variant: the search for the first brace precedes the empty check.
ParseJson_FindFirst(text) ==
    LET stripped == Strip(text)
        content == RemoveFence(stripped)
        start_idx == Find(content, "{")
        st == Scan(content, start_idx)
        json_str == Candidate(content, start_idx, st)
        first == JsonLoads(json_str)
        end2 == RFind(content, "}")
        second_tried == start_idx # 0 /\ end2 # 0 /\ end2 > start_idx
        span2 == SubSeq(content, start_idx, end2)
        second == JsonLoads(span2)
    IN  IF start_idx = 0 THEN ParseFailed("NoJsonFound", content)
        ELSE IF stripped = <<>> THEN ParseFailed("EmptyResponse", <<>>)
        ELSE IF first.ok
        THEN [status |-> "ok", content |-> content, start_idx |-> start_idx,
              scan |-> st, json_str |-> json_str, first_ok |-> TRUE,
              second_tried |-> FALSE, second_ok |-> FALSE, loads |-> 1,
              parsed_from |-> json_str, keys |-> first.keys]
        ELSE IF second_tried /\ second.ok
        THEN [status |-> "ok", content |-> content, start_idx |-> start_idx,
              scan |-> st, json_str |-> json_str, first_ok |-> FALSE,
              second_tried |-> TRUE, second_ok |-> TRUE, loads |-> 2,
              parsed_from |-> span2, keys |-> second.keys]
        ELSE [status |-> "JsonRepairFailed", content |-> content,
              start_idx |-> start_idx, scan |-> st, json_str |-> json_str,
              first_ok |-> FALSE, second_tried |-> second_tried,
              second_ok |-> FALSE, loads |-> IF second_tried THEN 2 ELSE 1,
              parsed_from |-> <<>>, keys |-> <<>>]

\* Faulty variant: the second json.loads attempt is missing.
ParseJson_NoSecond(text) ==
    LET stripped == Strip(text)
        content == RemoveFence(stripped)
        start_idx == Find(content, "{")
        st == Scan(content, start_idx)
        json_str == Candidate(content, start_idx, st)
        first == JsonLoads(json_str)
        end2 == RFind(content, "}")
        second_tried == FALSE
        span2 == SubSeq(content, start_idx, end2)
        second == JsonLoads(span2)
    IN  IF stripped = <<>> THEN ParseFailed("EmptyResponse", <<>>)
        ELSE IF start_idx = 0 THEN ParseFailed("NoJsonFound", content)
        ELSE IF first.ok
        THEN [status |-> "ok", content |-> content, start_idx |-> start_idx,
              scan |-> st, json_str |-> json_str, first_ok |-> TRUE,
              second_tried |-> FALSE, second_ok |-> FALSE, loads |-> 1,
              parsed_from |-> json_str, keys |-> first.keys]
        ELSE IF second_tried /\ second.ok
        THEN [status |-> "ok", content |-> content, start_idx |-> start_idx,
              scan |-> st, json_str |-> json_str, first_ok |-> FALSE,
              second_tried |-> TRUE, second_ok |-> TRUE, loads |-> 2,
              parsed_from |-> span2, keys |-> second.keys]
        ELSE [status |-> "JsonRepairFailed", content |-> content,
              start_idx |-> start_idx, scan |-> st, json_str |-> json_str,
              first_ok |-> FALSE, second_tried |-> second_tried,
              second_ok |-> FALSE, loads |-> IF second_tried THEN 2 ELSE 1,
              parsed_from |-> <<>>, keys |-> <<>>]

\* _parse_json(content): the exception it raises or the object it returns
\* (parsed_from: the text json.loads decoded), with the locals it went through.
ParseJson(text) ==
    LET stripped == Strip(text)
        content == RemoveFence(stripped)
        start_idx == Find(content, "{")
        st == Scan(content, start_idx)
        json_str == Candidate(content, start_idx, st)
        first == JsonLoads(json_str)
        end2 == RFind(content, "}")
        second_tried == start_idx # 0 /\ end2 # 0 /\ end2 > start_idx
        span2 == SubSeq(content, start_idx, end2)
        second == JsonLoads(span2)
    IN  IF stripped = <<>> THEN ParseFailed("EmptyResponse", <<>>)
        ELSE IF start_idx = 0 THEN ParseFailed("NoJsonFound", content)
        ELSE IF first.ok
        THEN [status |-> "ok", content |-> content, start_idx |-> start_idx,
              scan |-> st, json_str |-> json_str, first_ok |-> TRUE,
              second_tried |-> FALSE, second_ok |-> FALSE, loads |-> 1,
              parsed_from |-> json_str, keys |-> first.keys]
        ELSE IF second_tried /\ second.ok
        THEN [status |-> "ok", content |-> content, start_idx |-> start_idx,
              scan |-> st, json_str |-> json_str, first_ok |-> FALSE,
              second_tried |-> TRUE, second_ok |-> TRUE, loads |-> 2,
              parsed_from |-> span2, keys |-> second.keys]
        ELSE [status |-> "JsonRepairFailed", content |-> content,
              start_idx |-> start_idx, scan |-> st, json_str |-> json_str,
              first_ok |-> FALSE, second_tried |-> second_tried,
              second_ok |-> FALSE, loads |-> IF second_tried THEN 2 ELSE 1,
              parsed_from |-> <<>>, keys |-> <<>>]

\* ------------------------------------------------- texts handed to the parser

\* Pieces the exhaustively built texts are made of.
Chunks == {<<"{">>, <<"}">>, <<"\"">>, <<"\\">>, <<":", "1">>}

RECURSIVE Flatten(_)
Flatten(ss) == IF ss = <<>> THEN <<>> ELSE Head(ss) \o Flatten(Tail(ss))

ChunkTexts ==
    {Flatten(f) : f \in UNION {[1..k -> Chunks] : k \in 0..MaxChunks}}

\* Lines the fenced texts are made of.
LineVocab ==
    {<<BT, BT, BT, "j", "s", "o", "n">>,
     <<BT, BT, BT>>,
     <<"{", "\"", "a", "\"", ":", "1", "}">>,
     <<"{", "\"", "a", "\"", ":", "\"", "x">>,
     <<"x">>,
     <<>>,
     <<" ", BT, BT, BT, " ">>,
     <<"}">>}

LineTexts ==
    {Join(f) : f \in UNION {[1..k -> LineVocab] : k \in 1..MaxLines}}

\* {"a":"\"}"} : an escaped quote and a brace inside a string value
SampleEscapedBrace == <<"{", "\"", "a", "\"", ":", "\"", "\\", "\"", "}", "\"", "}">>

\* A fenced response cut off inside a string value: {"a": 1, "b": "te
SampleTruncatedFence ==
    <<BT, BT, BT, "j", "s", "o", "n", "\n", "{", "\"", "a", "\"", ":", " ", "1", ",", " ", "\"", "b", "\"", ":", " ", "\"", "t", "e">>

\* An empty fenced block followed by an object.
SampleEmptyFence == <<BT, BT, BT, "j", "s", "o", "n", "\n", BT, BT, BT, "\n", "{", "\"", "a", "\"", ":", "1", "}">>

\* A fenced block holding prose, followed by an object after the fence.
SampleProseFence == <<BT, BT, BT, "\n", "x", "\n", BT, BT, BT, "\n", "{", "\"", "a", "\"", ":", "1", "}">>

\* Responses of the kinds the parser is written for.
SampleTexts ==
    {<<"{", "\"", "n", "\"", ":", " ", "\"", "a", " ", "{", "w", "}", " ", "v", "\"", ",", " ", "\"", "x", "\"", ":", " ", "1", "}">>,
     SampleTruncatedFence,
     SampleEscapedBrace,
     SampleEmptyFence,
     SampleProseFence,
     <<" ", "\n", " ">>,
     <<"x", " ", "{", "\"", "a", "\"", ":", "1", "}", " ", "y", " ", "}">>,
     <<"{", "\"", "a", "\"", ":", "{", "\"", "b", "\"", ":", "1", "}", "}", " ", "{", "\"", "c", "\"", ":", "2", "}">>,
     <<"{", "\"", "a", "\"", ":", "\"", "x", "\\">>,
     <<BT, BT, BT, "j", "s", "o", "n", "\n", "{", "\"", "a", "\"", ":", "1", "}", "\n", BT, BT, BT, "\n", "x", " ", "{", "\"", "b", "\"", ":", "2", "}">>,
     <<"{", "\"", "a", "\"", ":", "1", ",", "}">>}

ParserInputs == ChunkTexts \cup LineTexts \cup SampleTexts

ParserInit ==
    /\ SelectorInit
    /\ openai_api_key /\ google_api_key
    /\ raw \in ParserInputs
    /\ RankOff

\* self._parse_json(content)
ParseJsonCall ==
    /\ parse_out = NoParse
    /\ parse_out' = ParseJson(raw)
    /\ UNCHANGED <<selector_vars, init_trace, built, pc, extractor_vars,
                   ctor_error, call_vars, sel_out, sel_calls, raw>>
    /\ UNCHANGED rank_vars
    /\ UNCHANGED conc_vars

ParserNext == ParseJsonCall

ParserSpec == ParserInit /\ [][ParserNext]_vars

\* ------------------------------------------- direct calls on the selector
\* The application calling the public methods of a ModelSelector itself.

SelOut(op, r) ==
    [op |-> op, status |-> r.status, model |-> r.model, error |-> r.error,
     tried |-> r.tried, keys |-> NoKeyStatus]

CallGetPrimaryModel(initOk) ==
    /\ sel_calls < MaxSelectorCalls
    /\ LET r == GetPrimaryModel(openai_api_key, current_model, initOk)
       IN  /\ current_model' = r.current_model
           /\ built' = built \cup Classes(r.tried)
           /\ sel_out' = SelOut("get_primary_model", r)
    /\ sel_calls' = sel_calls + 1
    /\ UNCHANGED <<openai_api_key, google_api_key, init_trace, pc, extractor_vars,
                   ctor_error, call_vars, raw, parse_out>>
    /\ UNCHANGED rank_vars
    /\ UNCHANGED conc_vars

CallGetFallbackModel(initOk) ==
    /\ sel_calls < MaxSelectorCalls
    /\ LET r == GetFallbackModel(google_api_key, current_model, initOk)
       IN  /\ current_model' = r.current_model
           /\ built' = built \cup Classes(r.tried)
           /\ sel_out' = SelOut("get_fallback_model", r)
    /\ sel_calls' = sel_calls + 1
    /\ UNCHANGED <<openai_api_key, google_api_key, init_trace, pc, extractor_vars,
                   ctor_error, call_vars, raw, parse_out>>
    /\ UNCHANGED rank_vars
    /\ UNCHANGED conc_vars

CallValidateApiKeys ==
    /\ sel_calls < MaxSelectorCalls
    /\ sel_out' = [op |-> "validate_api_keys", status |-> "ok", model |-> "None",
                   error |-> NoErr, tried |-> <<>>,
                   keys |-> ValidateApiKeys(openai_api_key, google_api_key)]
    /\ sel_calls' = sel_calls + 1
    /\ UNCHANGED <<selector_vars, init_trace, built, pc, extractor_vars,
                   ctor_error, call_vars, raw, parse_out>>
    /\ UNCHANGED rank_vars
    /\ UNCHANGED conc_vars

CallGetModelWithFallback(pInit, sInit) ==
    /\ sel_calls < MaxSelectorCalls
    /\ LET r == GetModelWithFallback(openai_api_key, google_api_key,
                                     current_model, pInit, sInit)
       IN  /\ current_model' = r.current_model
           /\ built' = built \cup Classes(r.tried)
           /\ sel_out' = SelOut("get_model_with_fallback", r)
    /\ sel_calls' = sel_calls + 1
    /\ UNCHANGED <<openai_api_key, google_api_key, init_trace, pc, extractor_vars,
                   ctor_error, call_vars, raw, parse_out>>
    /\ UNCHANGED rank_vars
    /\ UNCHANGED conc_vars

SelectorNext ==
    \/ \E initOk \in BOOLEAN : CallGetPrimaryModel(initOk)
    \/ \E initOk \in BOOLEAN : CallGetFallbackModel(initOk)
    \/ CallValidateApiKeys
    \/ \E pInit \in BOOLEAN, sInit \in BOOLEAN : CallGetModelWithFallback(pInit, sInit)

SelectorSpec == Init /\ [][SelectorNext]_vars

\* ------------------------------------------------------------- ProfileScorer
\* Python values: a dictionary is a record whose missing keys hold AbsentV.
AbsentV == [t |-> "absent"]
NoneV == [t |-> "None"]
StrV(s) == [t |-> "str", s |-> s]
IntV(n) == [t |-> "int", n |-> n]
ListV(l) == [t |-> "list", l |-> l]

\* dict.get(key, default)
Get(d, key, default) == IF d[key].t = "absent" THEN default ELSE d[key]

\* str(value) for a string and for None
StrOf(v) == IF v.t = "str" THEN v.s ELSE <<"N", "o", "n", "e">>

UpperCase == <<"A", "B", "C", "D", "E", "F", "G", "H", "I", "J", "K", "L", "M", "N", "O", "P", "Q", "R", "S", "T", "U", "V", "W", "X", "Y", "Z">>
LowerCase == <<"a", "b", "c", "d", "e", "f", "g", "h", "i", "j", "k", "l", "m", "n", "o", "p", "q", "r", "s", "t", "u", "v", "w", "x", "y", "z">>

\* str.lower() of one character
LowerChar(c) ==
    IF \E i \in DOMAIN UpperCase : UpperCase[i] = c
    THEN LowerCase[CHOOSE i \in DOMAIN UpperCase : UpperCase[i] = c]
    ELSE c

\* str.lower()
Lower(s) == [i \in DOMAIN s |-> LowerChar(s[i])]

\* needle in hay
Contains(hay, needle) ==
    \E i \in 0..(Len(hay) - Len(needle)) : SubSeq(hay, i + 1, i + Len(needle)) = needle

ROLE_KEYWORDS ==
    <<<<"T", "o", "x", "i", "c", "o", "l", "o", "g", "y">>,
      <<"S", "a", "f", "e", "t", "y">>,
      <<"H", "e", "p", "a", "t", "i", "c">>,
      <<"3", "D">>>>
ROLE_SCORE == 30
RECENT_YEARS == 2
RECENT_SCORE == 40
RESEARCH_KEYWORDS ==
    <<<<"l", "i", "v", "e", "r">>,
      <<"t", "o", "x", "i", "c", "i", "t", "y">>,
      <<"3", "D", " ", "m", "o", "d", "e", "l", "s">>,
      <<"h", "e", "p", "a", "t", "i", "c">>>>
RESEARCH_SCORE == 20
HUB_LOCATIONS ==
    <<<<"B", "o", "s", "t", "o", "n">>,
      <<"C", "a", "m", "b", "r", "i", "d", "g", "e">>,
      <<"B", "a", "y", " ", "A", "r", "e", "a">>,
      <<"B", "a", "s", "e", "l">>,
      <<"P", "a", "l", "o", " ", "A", "l", "t", "o">>,
      <<"B", "e", "r", "k", "e", "l", "e", "y">>,
      <<"S", "a", "n", " ", "F", "r", "a", "n", "c", "i", "s", "c", "o">>>>
LOCATION_SCORE == 10

\* Faulty variant: the loop goes on after a match.
RECURSIVE CriterionScore_NoBreak(_, _, _, _, _)
CriterionScore_NoBreak(score, words, i, texts, weight) ==
    IF i > Len(words) THEN score
    ELSE CriterionScore_NoBreak(
            IF \E j \in DOMAIN texts : Contains(texts[j], Lower(words[i]))
            THEN score + weight ELSE score,
            words, i + 1, texts, weight)

\* One criterion loop of calculate_score: for word in words, from the i-th on:
\* if word.lower() is in (any of) the lowered texts: score += weight; break
RECURSIVE CriterionScore(_, _, _, _, _)
CriterionScore(score, words, i, texts, weight) ==
    IF i > Len(words) THEN score
    ELSE IF \E j \in DOMAIN texts : Contains(texts[j], Lower(words[i]))
    THEN score + weight
    ELSE CriterionScore(score, words, i + 1, texts, weight)

\* Python truth value of a year
Truthy(v) ==
    CASE v.t = "int" -> v.n # 0
      [] v.t = "str" -> v.s # <<>>
      [] v.t = "list" -> v.l # <<>>
      [] OTHER -> FALSE

\* The value of a string of decimal digits
RECURSIVE DigitsValue(_)
DigitsValue(s) ==
    IF s = <<>> THEN 0
    ELSE 10 * DigitsValue(SubSeq(s, 1, Len(s) - 1))
         + (CHOOSE d \in 0..9 : <<"0", "1", "2", "3", "4", "5", "6", "7", "8", "9">>[d + 1] = s[Len(s)])

\* int(text): surrounding whitespace, an optional sign, decimal digits;
\* anything else is a ValueError.
IntOf(text) ==
    LET t == Strip(text)
        signed == t # <<>> /\ t[1] \in {"+", "-"}
        digits == IF signed THEN Tail(t) ELSE t
    IN  IF digits # <<>> /\ \A i \in DOMAIN digits : IsDigit(digits[i])
        THEN [ok |-> TRUE,
              n |-> IF signed /\ t[1] = "-" THEN 0 - DigitsValue(digits) ELSE DigitsValue(digits)]
        ELSE [ok |-> FALSE, n |-> 0]

\* Faulty variant: a year that cannot be read is taken as the current year.
RecencyScore_DefaultYear(score, publication_year, now) ==
    IF publication_year.t = "int"
    THEN (IF now - publication_year.n <= RECENT_YEARS THEN score + RECENT_SCORE ELSE score)
    ELSE score + RECENT_SCORE

\* Criterion 2 of calculate_score; ValueError and TypeError are swallowed.
RecencyScore(score, publication_year, now) ==
    IF ~Truthy(publication_year) THEN score
    ELSE LET conv == IF publication_year.t = "str"
                     THEN IntOf(publication_year.s)
                     ELSE [ok |-> publication_year.t = "int",
                           n |-> IF publication_year.t = "int" THEN publication_year.n ELSE 0]
         IN  IF ~conv.ok THEN score
             ELSE IF now - conv.n <= RECENT_YEARS THEN score + RECENT_SCORE
             ELSE score

\* keywords = profile.get("keywords", []); a string becomes [keywords]
KeywordList(keywords) ==
    IF keywords.t = "str" THEN <<keywords.s>>
    ELSE IF keywords.t = "list" THEN keywords.l
    ELSE <<>>

\* Faulty variant: the title is matched as it is written.
CalculateScore_CaseSensitive(profile, now) ==
    LET title == StrOf(Get(profile, "title", StrV(<<>>)))
        s1 == CriterionScore(0, ROLE_KEYWORDS, 1, <<title>>, ROLE_SCORE)
        s2 == RecencyScore(s1, Get(profile, "year", NoneV), now)
        keywords == KeywordList(Get(profile, "keywords", ListV(<<>>)))
        keywords_lower == [i \in DOMAIN keywords |-> Lower(keywords[i])]
        s3 == CriterionScore(s2, RESEARCH_KEYWORDS, 1, keywords_lower, RESEARCH_SCORE)
        location == Lower(StrOf(Get(profile, "location", StrV(<<>>))))
    IN  CriterionScore(s3, HUB_LOCATIONS, 1, <<location>>, LOCATION_SCORE)

\* ProfileScorer.calculate_score(profile), called in the year now
CalculateScore(profile, now) ==
    LET title == Lower(StrOf(Get(profile, "title", StrV(<<>>))))
        s1 == CriterionScore(0, ROLE_KEYWORDS, 1, <<title>>, ROLE_SCORE)
        s2 == RecencyScore(s1, Get(profile, "year", NoneV), now)
        keywords == KeywordList(Get(profile, "keywords", ListV(<<>>)))
        keywords_lower == [i \in DOMAIN keywords |-> Lower(keywords[i])]
        s3 == CriterionScore(s2, RESEARCH_KEYWORDS, 1, keywords_lower, RESEARCH_SCORE)
        location == Lower(StrOf(Get(profile, "location", StrV(<<>>))))
    IN  CriterionScore(s3, HUB_LOCATIONS, 1, <<location>>, LOCATION_SCORE)

\* Faulty variant: no copy is made, the caller's dictionary is used.
CopyProfile_Alias(h, id) == [heap |-> h, id |-> id]

\* Faulty variant: the copy is made without the location entry.
CopyProfile_Partial(h, id) ==
    [heap |-> Append(h, [h[id] EXCEPT !.location = AbsentV]), id |-> Len(h) + 1]

\* profile_copy = profile.copy(): a new dictionary with the same entries,
\* allocated after the existing ones.
CopyProfile(h, id) == [heap |-> Append(h, h[id]), id |-> Len(h) + 1]

\* Faulty variant: a score the profile came with is kept.
RECURSIVE ScoreEach_KeepsStale(_, _, _, _, _, _)
ScoreEach_KeepsStale(h, ps, i, now, scored_profiles, copy_of) ==
    IF i > Len(ps) THEN [heap |-> h, out |-> scored_profiles, copy_of |-> copy_of]
    ELSE LET c == CopyProfile(h, ps[i])
             score == CalculateScore(c.heap[c.id], now)
             h2 == IF c.heap[c.id].probability_score = AbsentV
                   THEN [c.heap EXCEPT ![c.id].probability_score = IntV(score)]
                   ELSE c.heap
         IN  ScoreEach_KeepsStale(h2, ps, i + 1, now, Append(scored_profiles, c.id),
                                  Append(copy_of, ps[i]))

\* The loop of score_profiles over profiles from the i-th on: copy, score,
\* store the score in the copy, append the copy.
RECURSIVE ScoreEach(_, _, _, _, _, _)
ScoreEach(h, ps, i, now, scored_profiles, copy_of) ==
    IF i > Len(ps) THEN [heap |-> h, out |-> scored_profiles, copy_of |-> copy_of]
    ELSE LET c == CopyProfile(h, ps[i])
             score == CalculateScore(c.heap[c.id], now)
             h2 == [c.heap EXCEPT ![c.id].probability_score = IntV(score)]
         IN  ScoreEach(h2, ps, i + 1, now, Append(scored_profiles, c.id),
                       Append(copy_of, ps[i]))

\* key=lambda x: x.get("probability_score", 0)
SortKey(h, id) == Get(h[id], "probability_score", IntV(0)).n

\* Faulty variant: an element goes in front of the elements with its key.
InsertSorted_Unstable(h, sorted, id) ==
    LET before == {j \in DOMAIN sorted : SortKey(h, sorted[j]) > SortKey(h, id)}
        n == Cardinality(before)
    IN  SubSeq(sorted, 1, n) \o <<id>> \o SubSeq(sorted, n + 1, Len(sorted))

\* One element placed into a list sorted by key descending, behind the
\* elements with the same key (list.sort is stable, also with reverse=True).
InsertSorted(h, sorted, id) ==
    LET before == {j \in DOMAIN sorted : SortKey(h, sorted[j]) >= SortKey(h, id)}
        n == Cardinality(before)
    IN  SubSeq(sorted, 1, n) \o <<id>> \o SubSeq(sorted, n + 1, Len(sorted))

\* scored_profiles.sort(key=..., reverse=True)
RECURSIVE SortDescending(_, _, _, _)
SortDescending(h, ids, i, sorted) ==
    IF i > Len(ids) THEN sorted
    ELSE SortDescending(h, ids, i + 1, InsertSorted(h, sorted, ids[i]))

\* Faulty variant: profiles with the same score get the same rank.
RECURSIVE AssignRanks_Dense(_, _, _)
AssignRanks_Dense(h, ids, rank) ==
    IF rank > Len(ids) THEN h
    ELSE AssignRanks_Dense(
            [h EXCEPT ![ids[rank]].rank =
                IF rank > 1 /\ SortKey(h, ids[rank]) = SortKey(h, ids[rank - 1])
                THEN h[ids[rank - 1]].rank ELSE IntV(rank)],
            ids, rank + 1)

\* for rank, profile in enumerate(scored_profiles, 1): profile["rank"] = rank
RECURSIVE AssignRanks(_, _, _)
AssignRanks(h, ids, rank) ==
    IF rank > Len(ids) THEN h
    ELSE AssignRanks([h EXCEPT ![ids[rank]].rank = IntV(rank)], ids, rank + 1)

\* ProfileScorer.score_profiles(profiles): the heap it leaves, the list it
\* returns, and (for the record) which input each element of the unsorted
\* list was copied from.
ScoreProfiles(h, ps, now) ==
    LET each == ScoreEach(h, ps, 1, now, <<>>, <<>>)
        sorted == SortDescending(each.heap, each.out, 1, <<>>)
    IN  [status |-> "ok",
         heap |-> AssignRanks(each.heap, sorted, 1),
         out |-> sorted,
         unsorted |-> each.out,
         copy_of |-> each.copy_of]

\* ---------------------------------------------------------------- ExcelWriter
\* A dictionary as a value; a document is the sequence of its (name, value)
\* entries in insertion order.
DictV(d) == [t |-> "dict", d |-> d]

\* Faulty variant: every element of a list is looked at, not only the first.
RECURSIVE IsLeadGenData_AnyItem(_, _)
IsLeadGenData_AnyItem(data, i) ==
    IF i > Len(data) THEN FALSE
    ELSE LET section_data == data[i].value
         IN  IF /\ section_data.t = "list"
                /\ \E k \in DOMAIN section_data.l :
                      /\ section_data.l[k].t = "dict"
                      /\ section_data.l[k].d.probability_score.t # "absent"
             THEN TRUE
             ELSE IsLeadGenData_AnyItem(data, i + 1)

\* ExcelWriter._is_lead_gen_data(data), the loop from the i-th entry on
RECURSIVE IsLeadGenData(_, _)
IsLeadGenData(data, i) ==
    IF i > Len(data) THEN FALSE
    ELSE LET section_data == data[i].value
         IN  IF /\ section_data.t = "list"
                /\ Len(section_data.l) > 0
                /\ section_data.l[1].t = "dict"
                /\ section_data.l[1].d.probability_score.t # "absent"
             THEN TRUE
             ELSE IsLeadGenData(data, i + 1)

\* ExcelWriter.json_to_excel(data): which of the two writers is called
JsonToExcel(data) ==
    IF IsLeadGenData(data, 1) THEN "profiles" ELSE "flat"

\* The loop that picks the list to render: the index of the first entry whose
\* value is a list, from the i-th entry on; 0 when there is none.
RECURSIVE FirstListSection(_, _)
FirstListSection(data, i) ==
    IF i > Len(data) THEN 0
    ELSE IF data[i].value.t = "list" THEN i
    ELSE FirstListSection(data, i + 1)

\* key=lambda x: x.get("probability_score", 0)
RowKey(x) == Get(x.d, "probability_score", IntV(0)).n

\* One element placed into a list sorted by key descending, behind the
\* elements with the same key (sorted is stable, also with reverse=True).
InsertRow(sorted, x) ==
    LET before == {j \in DOMAIN sorted : RowKey(sorted[j]) >= RowKey(x)}
        n == Cardinality(before)
    IN  SubSeq(sorted, 1, n) \o <<x>> \o SubSeq(sorted, n + 1, Len(sorted))

\* profiles = sorted(profiles, key=..., reverse=True)
RECURSIVE SortRows(_, _, _)
SortRows(items, i, sorted) ==
    IF i > Len(items) THEN sorted
    ELSE SortRows(items, i + 1, InsertRow(sorted, items[i]))

\* The rows appended for a list of mappings: rank, score and name columns.
RenderRows(items) ==
    LET sorted == SortRows(items, 1, <<>>)
    IN  [rank \in DOMAIN sorted |->
            [rank |-> rank,
             score |-> Get(sorted[rank].d, "probability_score", IntV(0)),
             author_name |-> Get(sorted[rank].d, "author_name",
                                 StrV(<<"N", "/", "A">>))]]

\* ExcelWriter._profiles_to_excel(data): the entry it takes the rows from and
\* the rows it writes; x.get raises AttributeError on an element that is not
\* a mapping.
ProfilesToExcel(data) ==
    LET section == FirstListSection(data, 1)
        profiles_ == IF section = 0 THEN <<>> ELSE data[section].value.l
    IN  IF \E k \in DOMAIN profiles_ : profiles_[k].t # "dict"
        THEN [status |-> "AttributeError", section |-> section, rows |-> <<>>]
        ELSE [status |-> "ok", section |-> section, rows |-> RenderRows(profiles_)]

\* What json_to_excel(data) did: the writer it called and, for the
\* ranked-profile writer, the entry rendered and the rows written.
Export(data) ==
    IF JsonToExcel(data) = "profiles"
    THEN LET w == ProfilesToExcel(data)
         IN  [data |-> data, layout |-> "profiles", status |-> w.status,
              section |-> w.section, rows |-> w.rows]
    ELSE [data |-> data, layout |-> "flat", status |-> "ok",
          section |-> 0, rows |-> <<>>]

\* data_dict = {"Lead Generation Profiles": profiles}
DataDict(h, ids) ==
    <<[name |-> "Lead Generation Profiles",
       value |-> ListV([i \in DOMAIN ids |-> DictV(h[ids[i]])])]>>

\* -------------------------------------------------- extract_and_rank_profiles
\* A profile dictionary with the keys the scorer and the sort read.
Profile(author_name, title, year, keywords, location) ==
    [author_name |-> author_name, title |-> title, year |-> year,
     keywords |-> keywords, location |-> location,
     probability_score |-> AbsentV, rank |-> AbsentV]

\* An author entry of an abstract.
Author(name, role, location) ==
    DictV([name |-> name, role |-> role, location |-> location])

\* An abstract object.
Abstract(authors, keywords, year) ==
    DictV([authors |-> authors, keywords |-> keywords, year |-> year])

\* ', '.join(abstract_obj.get('keywords', [])) raises TypeError unless the
\* value is a string or a list (a list holds strings).
JoinRaises(items) == items.t \notin {"str", "list"}

\* Building abstract_text raises: the object or an author has no get, or the
\* join of the author names or of the keywords meets something that is not a
\* string.
PrepareRaises(abstract_obj) ==
    \/ abstract_obj.t # "dict"
    \/ LET authors == Get(abstract_obj.d, "authors", ListV(<<>>))
       IN  \/ authors.t # "list"
           \/ \E i \in DOMAIN authors.l : authors.l[i].t # "dict"
           \/ \E i \in DOMAIN authors.l :
                 Get(authors.l[i].d, "name", StrV(<<"U", "n", "k", "n", "o", "w", "n">>)).t # "str"
    \/ JoinRaises(Get(abstract_obj.d, "keywords", ListV(<<>>)))

\* The profile dictionaries built from the authors of one abstract.
AuthorProfiles(abstract_obj) ==
    LET authors == Get(abstract_obj.d, "authors", ListV(<<>>)).l
    IN  [i \in DOMAIN authors |->
            Profile(Get(authors[i].d, "name", StrV(<<"U", "n", "k", "n", "o", "w", "n">>)),
                    Get(authors[i].d, "role", StrV(<<"R", "e", "s", "e", "a", "r", "c", "h", "e", "r">>)),
                    Get(abstract_obj.d, "year", IntV(2024)),
                    Get(abstract_obj.d, "keywords", ListV(<<>>)),
                    Get(authors[i].d, "location", StrV(<<"U", "n", "k", "n", "o", "w", "n">>)))]

\* Faulty variant: the first failing abstract ends the loop.
RECURSIVE CollectProfiles_Abort(_, _, _, _)
CollectProfiles_Abort(abs, i, all_profiles, warnings) ==
    IF i > Len(abs) THEN [all_profiles |-> all_profiles, warned |-> warnings]
    ELSE IF PrepareRaises(abs[i])
    THEN [all_profiles |-> all_profiles, warned |-> warnings \cup {i}]
    ELSE CollectProfiles_Abort(abs, i + 1, all_profiles \o AuthorProfiles(abs[i]), warnings)

\* for idx, abstract_obj in enumerate(abstracts): try: ... except Exception:
\* st.warning(...); continue      (from the i-th abstract on)
RECURSIVE CollectProfiles(_, _, _, _)
CollectProfiles(abs, i, all_profiles, warnings) ==
    IF i > Len(abs) THEN [all_profiles |-> all_profiles, warned |-> warnings]
    ELSE IF PrepareRaises(abs[i])
    THEN CollectProfiles(abs, i + 1, all_profiles, warnings \cup {i})
    ELSE CollectProfiles(abs, i + 1, all_profiles \o AuthorProfiles(abs[i]), warnings)

\* ---------------------------------------------- profiles handed to the scorer
\* The calendar years a call is made in.
Years == {2025, 2026}

\* Values of the title key.
TitleInputs ==
    {StrV(<<"S", "e", "n", "i", "o", "r", " ", "T", "o", "x", "i", "c", "o", "l", "o", "g", "y", " ", "L", "e", "a", "d">>),
     StrV(<<"D", "a", "t", "a", " ", "A", "n", "a", "l", "y", "s", "t">>),
     StrV(<<"S", "A", "F", "E", "T", "Y">>),
     StrV(<<"3", "d", " ", "h", "e", "p", "a", "t", "i", "c">>),
     StrV(<<"T", "o", "x", "i", "c", "o", "l", "o", "g">>),
     StrV(<<>>),
     NoneV,
     AbsentV}

\* Values of the year key.
YearInputs ==
    {IntV(2026),
     IntV(2024),
     IntV(2023),
     IntV(2015),
     IntV(0),
     IntV(2030),
     StrV(<<"2", "0", "2", "4">>),
     StrV(<<" ", "2", "0", "2", "6", " ">>),
     StrV(<<"+", "2", "0", "2", "3">>),
     StrV(<<"a", "b", "c">>),
     StrV(<<"2", "0", "x", "4">>),
     StrV(<<"2", "0", "2", "4", ".", "0">>),
     StrV(<<>>),
     NoneV,
     AbsentV,
     ListV(<<<<"2", "0", "2", "6">>>>)}

\* Values of the keywords key.
KeywordInputs ==
    {ListV(<<<<"L", "i", "v", "e", "r", " ", "m", "o", "d", "e", "l", "s">>>>),
     ListV(<<<<"m", "a", "r", "k", "e", "t", "i", "n", "g">>>>),
     ListV(<<<<"m", "a", "r", "k", "e", "t", "i", "n", "g">>, <<"T", "O", "X", "I", "C", "I", "T", "Y">>, <<"h", "e", "p", "a", "t", "i", "c", " ", "c", "e", "l", "l", "s">>>>),
     ListV(<<<<"3", "D">>, <<"m", "o", "d", "e", "l", "s">>>>),
     ListV(<<>>),
     StrV(<<"3", "D", " ", "M", "o", "d", "e", "l", "s">>),
     StrV(<<"m", "a", "r", "k", "e", "t", "i", "n", "g">>),
     AbsentV}

\* Values of the location key.
LocationInputs ==
    {StrV(<<"B", "o", "s", "t", "o", "n", ",", " ", "M", "A">>),
     StrV(<<"D", "e", "n", "v", "e", "r">>),
     StrV(<<"p", "a", "l", "o", " ", "a", "l", "t", "o">>),
     StrV(<<"B", "A", "S", "E", "L", " ", "/", " ", "c", "a", "m", "b", "r", "i", "d", "g", "e">>),
     StrV(<<"B", "a", "y", " ", " ", "A", "r", "e", "a">>),
     NoneV,
     AbsentV}

ScoreInputs ==
    {Profile(StrV(<<"A">>), t, y, k, l) :
        t \in TitleInputs, y \in YearInputs, k \in KeywordInputs, l \in LocationInputs}

\* A profile that went through score_profiles once before.
Rescored(p, score, rank) ==
    [p EXCEPT !.probability_score = IntV(score), !.rank = IntV(rank)]

\* Profiles that batches are made of: every score from 0 to 100, with ties.
BatchProfiles ==
    {Profile(StrV(<<"A">>), StrV(<<"S", "e", "n", "i", "o", "r", " ", "T", "o", "x", "i", "c", "o", "l", "o", "g", "y", " ", "L", "e", "a", "d">>), IntV(2026), ListV(<<<<"L", "i", "v", "e", "r", " ", "m", "o", "d", "e", "l", "s">>>>), StrV(<<"B", "o", "s", "t", "o", "n", ",", " ", "M", "A">>)),
     Profile(StrV(<<"B">>), StrV(<<"D", "a", "t", "a", " ", "A", "n", "a", "l", "y", "s", "t">>), IntV(2015), ListV(<<<<"m", "a", "r", "k", "e", "t", "i", "n", "g">>>>), StrV(<<"D", "e", "n", "v", "e", "r">>)),
     Profile(StrV(<<"C">>), StrV(<<"S", "A", "F", "E", "T", "Y">>), IntV(2015), ListV(<<<<"m", "a", "r", "k", "e", "t", "i", "n", "g">>>>), StrV(<<"D", "e", "n", "v", "e", "r">>)),
     Profile(StrV(<<"D">>), StrV(<<"3", "d", " ", "h", "e", "p", "a", "t", "i", "c">>), StrV(<<"a", "b", "c">>), ListV(<<>>), AbsentV),
     Profile(StrV(<<"E">>), StrV(<<"D", "a", "t", "a", " ", "A", "n", "a", "l", "y", "s", "t">>), StrV(<<"2", "0", "2", "4">>), ListV(<<<<"m", "a", "r", "k", "e", "t", "i", "n", "g">>>>), StrV(<<"p", "a", "l", "o", " ", "a", "l", "t", "o">>)),
     Rescored(Profile(StrV(<<"F">>), StrV(<<"D", "a", "t", "a", " ", "A", "n", "a", "l", "y", "s", "t">>), IntV(2015), ListV(<<<<"m", "a", "r", "k", "e", "t", "i", "n", "g">>>>), StrV(<<"D", "e", "n", "v", "e", "r">>)), 99, 1),
     Profile(StrV(<<"G">>), AbsentV, AbsentV, StrV(<<"3", "D", " ", "M", "o", "d", "e", "l", "s">>), AbsentV),
     Profile(StrV(<<"H">>), AbsentV, AbsentV, AbsentV, AbsentV)}

Batches == UNION {[1..n -> BatchProfiles] : n \in 0..MaxBatch}

\* Abstract objects: well-formed ones, and ones whose handling raises.
AbstractInputs ==
    {Abstract(ListV(<<Author(StrV(<<"A">>), StrV(<<"S", "e", "n", "i", "o", "r", " ", "T", "o", "x", "i", "c", "o", "l", "o", "g", "y", " ", "L", "e", "a", "d">>), StrV(<<"B", "o", "s", "t", "o", "n", ",", " ", "M", "A">>))>>), ListV(<<<<"l", "i", "v", "e", "r">>>>), IntV(2026)),
     Abstract(ListV(<<Author(StrV(<<"B">>), StrV(<<"S", "A", "F", "E", "T", "Y">>), AbsentV), Author(StrV(<<"C">>), AbsentV, StrV(<<"B", "a", "s", "e", "l">>))>>), ListV(<<<<"m", "a", "r", "k", "e", "t", "i", "n", "g">>>>), IntV(2015)),
     NoneV,
     Abstract(ListV(<<StrV(<<"D">>)>>), ListV(<<>>), IntV(2026)),
     Abstract(ListV(<<Author(StrV(<<"E">>), AbsentV, AbsentV), Author(NoneV, AbsentV, AbsentV)>>), AbsentV, AbsentV),
     Abstract(ListV(<<Author(StrV(<<"F">>), AbsentV, AbsentV)>>), NoneV, StrV(<<"2", "0", "2", "5">>)),
     Abstract(AbsentV, StrV(<<"h", "e", "p", "a", "t", "i", "c">>), AbsentV)}

AbstractBatches == UNION {[1..n -> AbstractInputs] : n \in 0..MaxAbstracts}

\* Values of a top-level entry of a document.
EntryInputs ==
    LET plain == Profile(StrV(<<"A">>), AbsentV, AbsentV, AbsentV, AbsentV)
        ranked == Rescored(plain, 30, 1)
    IN  {StrV(<<"x">>), IntV(1), DictV(ranked), ListV(<<>>), ListV(<<StrV(<<"x">>)>>),
         ListV(<<DictV(plain)>>), ListV(<<DictV(ranked)>>),
         ListV(<<DictV(plain), DictV(ranked)>>), ListV(<<DictV(ranked), IntV(1)>>)}

\* Keys of the top-level entries, in insertion order.
SectionNames == <<"s1", "s2", "s3", "s4">>

Documents ==
    UNION {{[i \in 1..n |-> [name |-> SectionNames[i], value |-> f[i]]] :
                f \in [1..n -> EntryInputs]} : n \in 0..MaxEntries}

\* ------------------------------------------------------ scoring and ranking
\* calculate_score(profile), the module-level function
CalculateScoreCall ==
    /\ stage = "calc"
    /\ score_out = NoScore
    /\ score_out' = [status |-> "ok",
                     score |-> CalculateScore(heap[profiles[1]], current_year)]
    /\ UNCHANGED <<selector_vars, init_trace, built, pc, extractor_vars,
                   ctor_error, call_vars, aux_vars, conc_vars>>
    /\ UNCHANGED <<current_year, heap, profiles, scored, export, abstracts,
                   stage, warned>>

CalcInit ==
    /\ SelectorInit
    /\ openai_api_key /\ google_api_key
    /\ raw = <<>>
    /\ current_year \in Years
    /\ \E p \in ScoreInputs : heap = <<p>>
    /\ profiles = <<1>>
    /\ score_out = NoScore
    /\ scored = NoScored
    /\ export = NoExport
    /\ abstracts = <<>>
    /\ stage = "calc"
    /\ warned = {}

CalcNext == CalculateScoreCall

CalcSpec == CalcInit /\ [][CalcNext]_vars

\* What the caller keeps of the result of score_profiles.
Scored(r) ==
    [status |-> r.status, out |-> r.out, unsorted |-> r.unsorted,
     copy_of |-> r.copy_of]

\* scorer.score_profiles(profiles)
ScoreProfilesCall ==
    /\ stage = "ready"
    /\ LET r == ScoreProfiles(heap, profiles, current_year)
       IN  /\ heap' = r.heap
           /\ scored' = Scored(r)
    /\ stage' = "scored"
    /\ UNCHANGED <<selector_vars, init_trace, built, pc, extractor_vars,
                   ctor_error, call_vars, aux_vars, conc_vars>>
    /\ UNCHANGED <<current_year, profiles, score_out, export, abstracts, warned>>

\* create_excel_export(st.session_state.scored_profiles)
CreateExcelExport ==
    /\ stage = "scored"
    /\ LET data_dict == DataDict(heap, scored.out)
       IN  export' = Export(data_dict)
    /\ stage' = "exported"
    /\ UNCHANGED <<selector_vars, init_trace, built, pc, extractor_vars,
                   ctor_error, call_vars, aux_vars, conc_vars>>
    /\ UNCHANGED <<current_year, heap, profiles, score_out, scored, abstracts,
                   warned>>

\* ExcelWriter().json_to_excel(data) on a document of the caller's, when the
\* caller has a document rather than a batch of profiles
JsonToExcelCall(data) ==
    /\ stage = "document"
    /\ export' = Export(data)
    /\ stage' = "exported"
    /\ UNCHANGED <<selector_vars, init_trace, built, pc, extractor_vars,
                   ctor_error, call_vars, aux_vars, conc_vars>>
    /\ UNCHANGED <<current_year, heap, profiles, score_out, scored, abstracts,
                   warned>>

RankInit ==
    /\ SelectorInit
    /\ openai_api_key /\ google_api_key
    /\ raw = <<>>
    /\ current_year \in Years
    /\ \/ stage = "ready" /\ heap \in Batches
       \/ stage = "document" /\ heap = <<>>
    /\ profiles = [i \in DOMAIN heap |-> i]
    /\ score_out = NoScore
    /\ scored = NoScored
    /\ export = NoExport
    /\ abstracts = <<>>
    /\ warned = {}

RankNext ==
    \/ ScoreProfilesCall
    \/ CreateExcelExport
    \/ \E data \in Documents : JsonToExcelCall(data)

RankSpec == RankInit /\ [][RankNext]_vars

\* extract_and_rank_profiles(abstracts, ...): collect the profiles of every
\* abstract, keep them, score and rank them, keep the result.
ExtractAndRankProfiles ==
    /\ stage = "batch"
    /\ LET c == CollectProfiles(abstracts, 1, <<>>, {})
           all_profiles == [i \in DOMAIN c.all_profiles |-> i]
           r == ScoreProfiles(c.all_profiles, all_profiles, current_year)
       IN  /\ profiles' = all_profiles
           /\ warned' = c.warned
           /\ heap' = r.heap
           /\ scored' = Scored(r)
    /\ stage' = "scored"
    /\ UNCHANGED <<selector_vars, init_trace, built, pc, extractor_vars,
                   ctor_error, call_vars, aux_vars, conc_vars>>
    /\ UNCHANGED <<current_year, score_out, export, abstracts>>

BatchInit ==
    /\ SelectorInit
    /\ openai_api_key /\ google_api_key
    /\ raw = <<>>
    /\ current_year \in Years
    /\ heap = <<>>
    /\ profiles = <<>>
    /\ score_out = NoScore
    /\ scored = NoScored
    /\ export = NoExport
    /\ abstracts \in AbstractBatches
    /\ stage = "batch"
    /\ warned = {}

BatchNext ==
    \/ ExtractAndRankProfiles
    \/ CreateExcelExport

BatchSpec == BatchInit /\ [][BatchNext]_vars

\* ------------------------------------------------------------------ claims

Constructed == pc \notin {"new", "ctor_failed"}

\* key_status.get(p) of validate_api_keys
KeyPresent(p) == ValidateApiKeys(openai_api_key, google_api_key)[p]

\* C1: within one pass the first invocation is of the provider active when
\* the pass began; a second invocation happens only after the first attempt
\* failed, is of the other provider and only when that provider's credential
\* is present; with the other credential absent the pass fails with a single
\* error after exactly one invocation; no provider is invoked twice in a pass.
C1_FallbackOrder ==
    /\ Len(invoked) <= 2
    /\ Len(invoked) >= 1 => invoked[1] = pass_start
    /\ Len(invoked) = 2 =>
          /\ invoked[2] = Other(invoked[1])
          /\ KeyPresent(invoked[2])
          /\ e # NoErr /\ e.by = invoked[1]
    /\ (pc = "retry" /\ ~KeyPresent(Other(pass_start))) =>
          /\ raised.kind = "single"
          /\ invoked = <<pass_start>>

C1_Witness ==
    /\ pc = "retry"
    /\ Len(invoked) = 2
    /\ raised.kind = "combined"

\* C2 (as stated): the active provider is switched at most once during one
\* retry-wrapped extract call.
C2_AtMostOneSwitchPerCall == switches <= 1

\* C2 (amended): the active provider changes only by a fallback switch, at
\* most once in each pass, hence at most MaxAttempts times in one call.
C2_OneSwitchPerPass ==
    /\ [](/\ switches <= Len(passlog) + (IF pc = "attempt2" THEN 1 ELSE 0)
          /\ switches <= MaxAttempts)
    /\ [][(pc # "new" /\ model_type' # model_type) =>
             /\ pc = "consider"
             /\ model_type' = Other(model_type)
             /\ switches' = switches + 1]_vars

C2_Witness == switches = MaxAttempts /\ result.status = "Failed"

\* C3: data returned by extract is validated data produced by the provider
\* that is active at the return, handle and identifier agreeing; the active
\* provider is kept between calls and the first attempt of a pass is made
\* with it, so after a successful fallback the next call starts with the
\* fallback provider.
C3_ReturnedDataIsActiveProviders ==
    /\ [](result.status = "Done" =>
             /\ result.data.is_valid
             /\ result.data.by = model_type
             /\ ProviderOf(model) = model_type)
    /\ [][/\ pc = "idle" => UNCHANGED <<model, model_type>>
          /\ pc = "attempt1" => invoked' = <<model_type>>]_vars

C3_Witness ==
    /\ init_trace = <<[cls |-> "ChatOpenAI", ok |-> TRUE]>>
    /\ calls = 2
    /\ passes = 1
    /\ invoked = <<"gemini">>
    /\ result.status = "Done"

\* C4: in a combined error the first error is labelled with the provider that
\* produced it (the one active when the pass began) and the fallback error
\* with the other provider.
C4_LabelsNameProducers ==
    raised.kind = "combined" =>
        /\ raised.primary_label = raised.primary.by
        /\ raised.primary_label = pass_start
        /\ raised.fallback_label = raised.fallback.by
        /\ raised.fallback_label # raised.primary_label

\* C5: an orchestrator built with only the secondary credential has secondary
\* active, never constructs or invokes the primary provider, and a succeeding
\* secondary attempt returns with no fallback step and no error.
C5_SecondaryOnly ==
    (Constructed /\ ~openai_api_key /\ google_api_key) =>
        /\ model_type = "gemini"
        /\ model = "ChatGoogleGenerativeAI"
        /\ "ChatOpenAI" \notin built
        /\ "openai" \notin ever_invoked
        /\ switches = 0
        /\ fallback_model_type = "None"
        /\ result.status = "Done" =>
              /\ result.data.by = "gemini"
              /\ result.error = NoErr
              /\ invoked = <<"gemini">>
              /\ e = NoErr

C5_Witness ==
    /\ ~openai_api_key /\ google_api_key
    /\ result.status = "Done"
    /\ passes = 1

InCall == pc \in {"attempt1", "consider", "attempt2", "retry"}

\* C6: an extract call runs at most MaxAttempts = 3 passes and at most 6
\* provider invocations, and every call under way reaches Done or Failed.
C6_Terminates ==
    /\ [](passes <= MaxAttempts /\ invocations <= 2 * MaxAttempts)
    /\ (InCall ~> (pc = "idle" /\ result.status \in {"Done", "Failed"}))

C6_Witness ==
    /\ result.status = "Failed"
    /\ passes = 3
    /\ invocations = 6

\* A failed pass used up its fallback path: no other credential, or the
\* fallback provider was tried.
Exhausted(p) ==
    \/ /\ p.outcome = "single"
       /\ p.fallback = "None"
       /\ Len(p.invoked) = 1
       /\ ~KeyPresent(Other(p.invoked[1]))
    \/ /\ p.outcome = "combined"
       /\ p.fallback = Other(p.invoked[1])

\* C7: a failure reaches the caller only after MaxAttempts passes that all
\* failed with their fallback path used up; a failed pass that is not the
\* last is followed by another pass; the first pass that succeeds ends the
\* call with its data.
C7_FailureOnlyAfterExhaustion ==
    /\ [](/\ result.status = "Failed" =>
               /\ Len(passlog) = MaxAttempts
               /\ \A i \in DOMAIN passlog : Exhausted(passlog[i])
               /\ result.error = raised
          /\ result.status = "Done" =>
               /\ Len(passlog) = passes
               /\ passlog[passes].outcome = "Done"
               /\ \A i \in 1..(passes - 1) : Exhausted(passlog[i])
               /\ result.data.by = passlog[passes].invoked[Len(passlog[passes].invoked)]
               /\ pc = "idle")
    /\ [][(pc = "retry" /\ passes < MaxAttempts) =>
             (pc' = "attempt1" /\ passes' = passes + 1 /\ result' = NoResult)]_vars

C7_Witness ==
    /\ result.status = "Failed"
    /\ passlog[1].outcome = "combined"
    /\ Len(passlog[3].invoked) = 2

\* C8: the number of passes of a call never exceeds the max_retries given to
\* the constructor.
C8_PassesBoundedByMaxRetries == Constructed => passes <= max_retries

\* C9: every kind of attempt failure yields the same failed attempt (no data),
\* leads to the same ConsiderFallback position with the orchestrator left as
\* it was, the fallback decision depends only on the active provider and the
\* credentials, and data that failed validation is never returned.
C9_FailuresUniform ==
    /\ [](/\ result.status = "Done" => result.data.is_valid
          /\ pc \in {"attempt1", "attempt2"} =>
               \A r \in Responses \ {"valid"} :
                  LET a == RunSingleExtractionAttempt(model, model_type, r)
                  IN  ~a.ok /\ a.data = NoData /\ a.error.by = ProviderOf(model)
          /\ pc = "consider" =>
               e.kind \in {"InvokeError", "EmptyResponse", "NoJsonFound",
                           "JsonRepairFailed", "ValidationFailed"})
    /\ [][/\ (pc = "attempt1" /\ result'.status # "Done") =>
               /\ pc' = "consider"
               /\ UNCHANGED <<model, model_type, current_model, passes, switches,
                              raised, passlog, result>>
          /\ pc = "consider" =>
               /\ fallback_model_type' =
                     (IF KeyPresent(Other(model_type)) THEN Other(model_type) ELSE "None")
               /\ pc' = (IF model_type' # model_type THEN "attempt2" ELSE "retry")]_vars

C9_Witness == pc = "consider" /\ e.kind = "ValidationFailed"

\* C10: get_model_with_fallback constructs the primary provider first; the
\* secondary is constructed only when the primary credential is absent or the
\* primary construction failed, never after a primary success; the returned
\* identifier names the provider of the returned handle.
C10_PrimaryFirst ==
    pc # "new" =>
        /\ Len(init_trace) <= 2
        /\ openai_api_key =>
              (Len(init_trace) >= 1 /\ init_trace[1].cls = "ChatOpenAI")
        /\ (\E i \in DOMAIN init_trace : init_trace[i].cls = "ChatGoogleGenerativeAI") =>
              \/ ~openai_api_key
              \/ init_trace[1] = [cls |-> "ChatOpenAI", ok |-> FALSE]
        /\ (\E i \in DOMAIN init_trace : init_trace[i] = [cls |-> "ChatOpenAI", ok |-> TRUE]) =>
              Len(init_trace) = 1
        /\ (pc = "idle" /\ calls = 0) =>
              /\ model \in Handles
              /\ ProviderOf(model) = model_type
              /\ init_trace[Len(init_trace)] = [cls |-> model, ok |-> TRUE]

C10_Witness ==
    /\ pc = "idle" /\ calls = 0
    /\ init_trace = <<[cls |-> "ChatOpenAI", ok |-> FALSE],
                      [cls |-> "ChatGoogleGenerativeAI", ok |-> TRUE]>>
    /\ model_type = "gemini"

\* A provider that get_model_with_fallback could not obtain: its credential
\* is absent or its construction was attempted and failed.
Unobtainable(cls, key) ==
    \/ ~key
    \/ \E i \in DOMAIN init_trace : init_trace[i] = [cls |-> cls, ok |-> FALSE]

\* C11: get_model_with_fallback fails only when neither provider could be
\* obtained (credential absent or construction failed, for both) and returns
\* a handle otherwise; when it fails after a construction error, the failure
\* carries the last underlying construction error.
C11_FailsOnlyWhenNoProvider ==
    /\ pc = "ctor_failed" =>
          /\ Unobtainable("ChatOpenAI", openai_api_key)
          /\ Unobtainable("ChatGoogleGenerativeAI", google_api_key)
          /\ (Len(init_trace) > 0) =>
                /\ ctor_error.kind = "BothFailed"
                /\ ctor_error.last =
                      [kind |-> "InitFailed",
                       by |-> ProviderOf(init_trace[Len(init_trace)].cls)]
    /\ (pc = "idle" /\ calls = 0) => model \in Handles

\* C12: construction with neither credential fails, so an orchestrator that
\* exists has an active provider, and its active provider always is one
\* whose credential is present.
C12_ActiveProviderHasCredential ==
    /\ (pc # "new" /\ ~openai_api_key /\ ~google_api_key) =>
          /\ pc = "ctor_failed"
          /\ model = "None"
          /\ ctor_error.kind = "NoKeys"
    /\ Constructed =>
          /\ model_type \in Providers
          /\ model \in Handles
          /\ KeyPresent(model_type)

C12_Witness ==
    /\ pc = "ctor_failed"
    /\ ~openai_api_key /\ ~google_api_key
    /\ ctor_error.kind = "NoKeys"

\* C13: validate_api_keys reports for each provider exactly whether its
\* credential is set, constructs no handle and changes nothing of the selector.
C13_ValidateApiKeysPure ==
    /\ [](sel_out.op = "validate_api_keys" =>
             /\ sel_out.keys.openai = openai_api_key
             /\ sel_out.keys.gemini = google_api_key
             /\ sel_out.tried = <<>>
             /\ sel_out.model = "None")
    /\ [][(sel_calls' # sel_calls /\ sel_out'.op = "validate_api_keys") =>
             UNCHANGED <<openai_api_key, google_api_key, current_model, built>>]_vars

C13_Witness ==
    /\ sel_out.op = "validate_api_keys"
    /\ sel_out.keys = [openai |-> FALSE, gemini |-> TRUE]
    /\ current_model = "gemini"

\* What get_primary_model / get_fallback_model must have returned, given the
\* credential and the handle class of the provider.
GetterContract(out, key, cls) ==
    /\ ~key => /\ out.status = "ValueError"
               /\ out.error.kind = "CredentialError"
               /\ out.tried = <<>>
    /\ key => /\ out.status \in {"ok", "Exception"}
              /\ out.status = "Exception" =>
                    /\ out.error.kind = "InitFailed"
                    /\ out.tried = <<[cls |-> cls, ok |-> FALSE]>>
              /\ out.status = "ok" =>
                    /\ out.model = cls
                    /\ out.tried = <<[cls |-> cls, ok |-> TRUE]>>

\* C14: get_primary_model and get_fallback_model fail with the credential
\* error, constructing nothing, when their credential is absent and with a
\* different initialisation error when construction fails; a failing call
\* leaves current_model as it was and a succeeding call sets it to the
\* provider.
C14_GetterFailures ==
    /\ [](/\ sel_out.op = "get_primary_model" =>
               GetterContract(sel_out, openai_api_key, "ChatOpenAI")
          /\ sel_out.op = "get_fallback_model" =>
               GetterContract(sel_out, google_api_key, "ChatGoogleGenerativeAI"))
    /\ [][(sel_calls' # sel_calls
             /\ sel_out'.op \in {"get_primary_model", "get_fallback_model"}) =>
             IF sel_out'.status = "ok"
             THEN current_model' = ProviderOf(sel_out'.model)
             ELSE current_model' = current_model]_vars

C14_Witness ==
    /\ sel_out.op = "get_fallback_model"
    /\ sel_out.status = "Exception"
    /\ current_model = "openai"
    /\ "ChatGoogleGenerativeAI" \in built

\* _parse_json got as far as the brace scan.
Scanned == parse_out.status \in {"ok", "JsonRepairFailed"}

\* The scan state before the character at index i of the scanned content.
ScanBefore(i) ==
    Scan(SubSeq(parse_out.content, 1, i - 1), parse_out.start_idx)

\* The indices the loop visited.
Visited ==
    parse_out.start_idx ..
       (IF parse_out.scan.closed THEN parse_out.scan.end_idx
        ELSE Len(parse_out.content))

\* A text that is one JSON object and nothing else.
WellFormedObject(t) ==
    /\ t # <<>>
    /\ t[1] = "{"
    /\ JsonLoads(t).ok

\* C15: in the scan a brace inside a string literal leaves the depth as it
\* is, and the character after a backslash changes neither the depth nor the
\* in-string state; so for a text that, trimmed, is a well-formed object (braces
\* and escaped quotes in its strings included) the candidate is that object.
C15_StringAwareScan ==
    Scanned =>
        /\ \A i \in Visited :
              LET before == ScanBefore(i)
                  after == ScanStep(before, parse_out.content[i], i)
              IN  /\ (before.in_string /\ ~before.escape_next
                        /\ parse_out.content[i] \in {"{", "}"}) =>
                        (after.brace_count = before.brace_count /\ after.in_string)
                  /\ before.escape_next =>
                        /\ after.in_string = before.in_string
                        /\ after.brace_count = before.brace_count
                        /\ ~after.escape_next
                  /\ (parse_out.content[i] = "\\" /\ ~before.escape_next) =>
                        after.escape_next
        /\ WellFormedObject(Strip(raw)) =>
              /\ parse_out.status = "ok"
              /\ parse_out.json_str = Strip(raw)
              /\ parse_out.parsed_from = Strip(raw)
              /\ parse_out.loads = 1

C15_Witness ==
    /\ raw = SampleEscapedBrace
    /\ parse_out.status = "ok"
    /\ parse_out.parsed_from = raw

\* The number of closing braces in a text.
RECURSIVE CountClosing(_)
CountClosing(t) ==
    IF t = <<>> THEN 0
    ELSE (IF Head(t) = "}" THEN 1 ELSE 0) + CountClosing(Tail(t))

\* C16: when the scan ends with the depth above zero, the candidate is the
\* text from the first brace to the end, then a closing quote exactly when
\* the scan ended inside a string literal, then (on a new line) one closing
\* brace per unit of depth; the fenced response cut off inside a string value
\* is decoded to an object with the keys read so far.
C16_TruncationRepair ==
    /\ (Scanned /\ ~parse_out.scan.closed) =>
          LET rest == SubSeqFrom(parse_out.content, parse_out.start_idx)
              added == SubSeqFrom(parse_out.json_str, Len(rest) + 1)
              depth == parse_out.scan.brace_count
          IN  /\ depth >= 1
              /\ SubSeq(parse_out.json_str, 1, Len(rest)) = rest
              /\ (added[1] = "\"") <=> parse_out.scan.in_string
              /\ CountClosing(added) = depth
              /\ SubSeqFrom(added, Len(added) - depth + 1) = Braces(depth)
              /\ Len(added) = depth + 1 + (IF parse_out.scan.in_string THEN 1 ELSE 0)
    /\ (raw = SampleTruncatedFence /\ parse_out.status # "none") =>
          /\ parse_out.status = "ok"
          /\ parse_out.scan.in_string
          /\ parse_out.keys = << <<"a">>, <<"b">> >>

C16_Witness ==
    /\ raw = SampleTruncatedFence
    /\ parse_out.status = "ok"
    /\ parse_out.scan.brace_count = 1

\* C17: a text that is empty after trimming fails with the empty-response
\* error, and only such a text does, with nothing stripped or scanned; any
\* other text whose fence-stripped content has no opening brace fails with
\* the no-JSON-found error, and only such a text does.
C17_EarlyFailures ==
    parse_out.status # "none" =>
        /\ (parse_out.status = "EmptyResponse") <=> (\A i \in DOMAIN raw : IsSpace(raw[i]))
        /\ parse_out.status = "EmptyResponse" =>
              (parse_out.content = <<>> /\ parse_out.loads = 0)
        /\ (parse_out.status = "NoJsonFound") <=>
              /\ \E i \in DOMAIN raw : ~IsSpace(raw[i])
              /\ \A i \in DOMAIN parse_out.content : parse_out.content[i] # "{"
        /\ parse_out.status = "NoJsonFound" =>
              /\ parse_out.content = RemoveFence(Strip(raw))
              /\ parse_out.loads = 0

C17_Witness ==
    /\ raw = SampleProseFence
    /\ parse_out.status = "NoJsonFound"
    /\ parse_out.content = <<"x">>

\* The first index from j on of a line that closes the fence, 0 if none.
RECURSIVE ClosingLine(_, _)
ClosingLine(lines, j) ==
    IF j > Len(lines) THEN 0
    ELSE IF StartsWithFence(Strip(lines[j])) THEN j
    ELSE ClosingLine(lines, j + 1)

\* The lines after the opening fence line up to the closing fence line.
FenceBody(t) ==
    LET lines == Split(Strip(t))
        close == ClosingLine(lines, 2)
    IN  IF close = 0 THEN SubSeq(lines, 2, Len(lines))
        ELSE SubSeq(lines, 2, close - 1)

\* C18: for a text that begins with a fence, the content handed to the scan
\* is (trimmed) the lines after the opening fence line and before the first
\* later fence line, or all later lines when there is no closing fence.
C18_FenceContent ==
    (parse_out.status \notin {"none", "EmptyResponse"} /\ StartsWithFence(Strip(raw))) =>
        parse_out.content = Strip(Join(FenceBody(raw)))

\* What may follow the closing brace of the first object.
Tails == {<<>>, <<"}">>, <<"{">>, <<"\"">>, <<" ", "x">>, <<"\n", "{", "}">>,
          <<"\\", "}">>, <<"}", "}">>}

\* C19: the scan stops at the first index after the first opening brace at
\* which the depth is back to zero, the candidate runs from the first opening
\* brace to that index, and whatever text follows that index does not change
\* the candidate.
C19_FirstBalancedSpan ==
    (Scanned /\ parse_out.scan.closed) =>
        LET first == parse_out.start_idx
            last == parse_out.scan.end_idx
            upto == SubSeq(parse_out.content, 1, last)
        IN  /\ first = Find(parse_out.content, "{")
            /\ last > first
            /\ parse_out.content[last] = "}"
            /\ parse_out.scan.brace_count = 0
            /\ \A k \in first..(last - 1) : ~ScanBefore(k + 1).closed
            /\ parse_out.json_str = SubSeq(parse_out.content, first, last)
            /\ \A t \in Tails :
                  Candidate(upto \o t, first, Scan(upto \o t, first))
                     = parse_out.json_str

C19_Witness ==
    /\ parse_out.status = "ok"
    /\ parse_out.scan.closed
    /\ parse_out.scan.end_idx < Len(parse_out.content)
    /\ parse_out.start_idx > 1

\* The span from the first opening brace to the last closing brace.
LastBraceSpan ==
    SubSeq(parse_out.content, parse_out.start_idx, RFind(parse_out.content, "}"))

\* C20: when decoding the candidate fails, exactly one more decoding is
\* attempted, of the span from the first opening brace to the last closing
\* brace of the fence-stripped text (if there is such a span); its result is
\* returned when it succeeds, and the repair-failed error is raised exactly
\* when no attempted decoding succeeded.
C20_OneFallbackParse ==
    Scanned =>
        LET applicable == RFind(parse_out.content, "}") > parse_out.start_idx
        IN  /\ parse_out.first_ok = JsonLoads(parse_out.json_str).ok
            /\ parse_out.first_ok =>
                  /\ parse_out.status = "ok"
                  /\ parse_out.loads = 1
                  /\ parse_out.parsed_from = parse_out.json_str
            /\ ~parse_out.first_ok =>
                  /\ parse_out.second_tried = applicable
                  /\ parse_out.loads = (IF applicable THEN 2 ELSE 1)
                  /\ (applicable /\ JsonLoads(LastBraceSpan).ok) =>
                        /\ parse_out.status = "ok"
                        /\ parse_out.parsed_from = LastBraceSpan
                  /\ ~(applicable /\ JsonLoads(LastBraceSpan).ok) =>
                        parse_out.status = "JsonRepairFailed"
            /\ parse_out.status = "JsonRepairFailed" => ~parse_out.first_ok

C20_Witness ==
    /\ parse_out.status = "JsonRepairFailed"
    /\ parse_out.second_tried
    /\ parse_out.loads = 2

\* ---------------------------------------------------------------- scoring

\* 1 for a rule that holds, 0 for one that does not.
Holds(b) == IF b THEN 1 ELSE 0

\* The text of a title or location value ("" when the key is absent).
TextOf(v) == IF v.t = "absent" THEN <<>> ELSE StrOf(v)

\* Some word of the set occurs in the text, letter case ignored.
Mentions(text, words) ==
    \E i \in DOMAIN words : Contains(Lower(text), Lower(words[i]))

RoleRule(p) == Mentions(TextOf(p.title), ROLE_KEYWORDS)

\* The year is an integer, or a string that reads as one, and lies at most
\* two years before the current year.
RecencyRule(p, now) ==
    \/ p.year.t = "int" /\ now - p.year.n <= 2
    \/ p.year.t = "str" /\ IntOf(p.year.s).ok /\ now - IntOf(p.year.s).n <= 2

ResearchRule(p) ==
    \/ p.keywords.t = "str" /\ Mentions(p.keywords.s, RESEARCH_KEYWORDS)
    \/ p.keywords.t = "list" /\ \E k \in DOMAIN p.keywords.l :
                                   Mentions(p.keywords.l[k], RESEARCH_KEYWORDS)

HubRule(p) == Mentions(TextOf(p.location), HUB_LOCATIONS)

\* calculate_score has returned for the profile.
Calculated == stage = "calc" /\ score_out.status = "ok"

\* C21: the score is 30 for the role rule plus 40 for the recency rule plus 20
\* for the research-keyword rule plus 10 for the hub-location rule, each
\* counted once however many of its words match, and the sum is not clamped.
C21_ScoreIsSumOfRules ==
    Calculated =>
        score_out.score = 30 * Holds(RoleRule(heap[1]))
                          + 40 * Holds(RecencyRule(heap[1], current_year))
                          + 20 * Holds(ResearchRule(heap[1]))
                          + 10 * Holds(HubRule(heap[1]))

\* All four rules hold, the role rule and the research rule by two words each.
C21_Witness ==
    /\ Calculated
    /\ score_out.score = 100
    /\ Cardinality({i \in DOMAIN ROLE_KEYWORDS :
                       Contains(Lower(TextOf(heap[1].title)), Lower(ROLE_KEYWORDS[i]))}) = 2
    /\ heap[1].keywords.t = "list" /\ Len(heap[1].keywords.l) = 3

\* str.upper() of one character
UpperChar(c) ==
    IF \E i \in DOMAIN LowerCase : LowerCase[i] = c
    THEN UpperCase[CHOOSE i \in DOMAIN LowerCase : LowerCase[i] = c]
    ELSE c

\* The other case of a letter.
SwapChar(c) == IF LowerChar(c) # c THEN LowerChar(c) ELSE UpperChar(c)

\* Some spellings of a text that differ from it in letter case only: all
\* lower, all upper, all swapped, every other letter swapped, and one letter
\* swapped at a time.
Recased(text) ==
    {Lower(text), [i \in DOMAIN text |-> UpperChar(text[i])],
     [i \in DOMAIN text |-> SwapChar(text[i])],
     [i \in DOMAIN text |-> IF i % 2 = 0 THEN SwapChar(text[i]) ELSE text[i]]}
    \cup {[text EXCEPT ![k] = SwapChar(text[k])] : k \in DOMAIN text}

\* The rearrangements of a list.
Permuted(l) ==
    {[i \in DOMAIN l |-> l[f[i]]] :
        f \in {g \in [DOMAIN l -> DOMAIN l] : \A i, j \in DOMAIN l : g[i] = g[j] => i = j}}

\* The profiles that differ from p in the order of the keywords or in the
\* letter case of title or location.
Variants(p) ==
    (IF p.keywords.t = "list"
     THEN {[p EXCEPT !.keywords = ListV(l)] : l \in Permuted(p.keywords.l)} ELSE {})
    \cup (IF p.title.t = "str"
          THEN {[p EXCEPT !.title = StrV(t)] : t \in Recased(p.title.s)} ELSE {})
    \cup (IF p.location.t = "str"
          THEN {[p EXCEPT !.location = StrV(t)] : t \in Recased(p.location.s)} ELSE {})

NoYear(p) ==
    \/ p.year.t \in {"absent", "None"}
    \/ p.year.t = "str" /\ ~IntOf(p.year.s).ok

\* C26: calculate_score returns an integer for every profile; with a year
\* that is missing or does not read as an integer it returns what it returns
\* for a year long past; with keywords given as one string, what it returns
\* for the list holding that string; with title or location absent, what it
\* returns for the empty text (no role, no hub weight).
C26_EdgeCases ==
    Calculated =>
        LET p == heap[1]
            score == score_out.score
        IN  /\ score \in 0..100
            /\ NoYear(p) =>
                  /\ score = CalculateScore([p EXCEPT !.year = IntV(1900)], current_year)
                  /\ score = 30 * Holds(RoleRule(p)) + 20 * Holds(ResearchRule(p))
                            + 10 * Holds(HubRule(p))
            /\ p.keywords.t = "str" =>
                  score = CalculateScore([p EXCEPT !.keywords = ListV(<<p.keywords.s>>)],
                                         current_year)
            /\ p.title.t = "absent" =>
                  /\ score = CalculateScore([p EXCEPT !.title = StrV(<<>>)], current_year)
                  /\ score = 40 * Holds(RecencyRule(p, current_year))
                            + 20 * Holds(ResearchRule(p)) + 10 * Holds(HubRule(p))
            /\ p.location.t = "absent" =>
                  /\ score = CalculateScore([p EXCEPT !.location = StrV(<<>>)], current_year)
                  /\ score = 30 * Holds(RoleRule(p))
                            + 40 * Holds(RecencyRule(p, current_year))
                            + 20 * Holds(ResearchRule(p))

\* A year that is not a number, keywords as one matching string, no title, and
\* a hub location: the research and hub weights are still awarded.
C26_Witness ==
    /\ Calculated
    /\ heap[1].year.t = "str" /\ ~IntOf(heap[1].year.s).ok /\ heap[1].year.s # <<>>
    /\ heap[1].keywords.t = "str"
    /\ heap[1].title.t = "absent"
    /\ score_out.score = 30

\* score_profiles has returned.
Ranked == scored.status = "ok"

\* The score stored in the record at position i of the returned list.
ScoreAt(i) == heap[scored.out[i]].probability_score.n

\* The position in the caller's list of the profile that the record at
\* position i of the returned list was copied from.
InputPosition(i) ==
    CHOOSE k \in DOMAIN scored.unsorted : scored.unsorted[k] = scored.out[i]

\* C22: the list returned by score_profiles holds one record per input
\* profile, each with the score of that profile, in non-increasing order of
\* score; records with equal scores are in the order of their input profiles.
C22_SortedAndStable ==
    Ranked =>
        /\ Len(scored.out) = Len(profiles)
        /\ \A k \in DOMAIN profiles :
              /\ scored.copy_of[k] = profiles[k]
              /\ \E i \in DOMAIN scored.out : scored.out[i] = scored.unsorted[k]
              /\ heap[scored.unsorted[k]].probability_score =
                    IntV(CalculateScore(heap[profiles[k]], current_year))
        /\ \A i, j \in DOMAIN scored.out :
              i < j => /\ ScoreAt(i) >= ScoreAt(j)
                       /\ ScoreAt(i) = ScoreAt(j) => InputPosition(i) < InputPosition(j)

\* Three profiles, the last one with the highest score and the first two tied.
C22_Witness ==
    /\ Ranked
    /\ stage = "scored"
    /\ Len(scored.out) = 3
    /\ InputPosition(1) = 3
    /\ ScoreAt(2) = ScoreAt(3)
    /\ heap[scored.out[2]].author_name # heap[scored.out[3]].author_name

\* C23: score_profiles leaves the caller's list and every dictionary that
\* existed before the call as they were; the records it returns are new ones.
C23_InputNotMutated ==
    [][(stage = "ready" /\ stage' = "scored") =>
          /\ profiles' = profiles
          /\ Len(heap') = Len(heap) + Len(profiles)
          /\ \A id \in DOMAIN heap : heap'[id] = heap[id]
          /\ \A i \in DOMAIN scored'.out : scored'.out[i] \notin DOMAIN heap]_vars

\* After the call an input profile still has no score and no rank, another
\* still has the score and rank it came with, and their copies have new ones.
C23_Witness ==
    /\ Ranked
    /\ stage = "scored"
    /\ \E k \in DOMAIN profiles :
          /\ heap[profiles[k]].probability_score = AbsentV
          /\ heap[profiles[k]].rank = AbsentV
          /\ heap[scored.unsorted[k]].probability_score # AbsentV
    /\ \E k \in DOMAIN profiles :
          /\ heap[profiles[k]].probability_score = IntV(99)
          /\ heap[profiles[k]].rank = IntV(1)
          /\ heap[scored.unsorted[k]].probability_score = IntV(0)
          /\ heap[scored.unsorted[k]].rank # IntV(1)

\* C24: the record at position i of the returned list has rank i, so the ranks
\* are 1..n without gap or duplicate, also among equal scores, and a smaller
\* rank never goes with a smaller score.
C24_RanksArePositions ==
    Ranked =>
        /\ \A i \in DOMAIN scored.out : heap[scored.out[i]].rank = IntV(i)
        /\ {heap[scored.out[i]].rank.n : i \in DOMAIN scored.out} = 1..Len(profiles)
        /\ \A i, j \in DOMAIN scored.out :
              heap[scored.out[i]].rank.n < heap[scored.out[j]].rank.n
                 => ScoreAt(i) >= ScoreAt(j)

\* Three records with the same score and the ranks 1, 2, 3.
C24_Witness ==
    /\ Ranked
    /\ Len(scored.out) = 3
    /\ ScoreAt(1) = ScoreAt(3)
    /\ heap[scored.out[3]].rank = IntV(3)

\* The value of a top-level entry is a non-empty list whose first element is
\* a mapping with the key probability_score.
MarksProfiles(value) ==
    /\ value.t = "list"
    /\ value.l # <<>>
    /\ value.l[1].t = "dict"
    /\ value.l[1].d.probability_score # AbsentV

\* C27: json_to_excel writes the ranked-profile layout exactly when some
\* top-level entry of the document is a non-empty list whose first element is
\* a mapping with probability_score, and the flat layout otherwise; a non-empty
\* batch returned by score_profiles, exported as the single entry of a
\* document, gets the ranked-profile layout.
C27_LayoutSelection ==
    export # NoExport =>
        /\ export.layout \in {"profiles", "flat"}
        /\ export.layout = "profiles" <=>
              \E i \in DOMAIN export.data : MarksProfiles(export.data[i].value)
        /\ Ranked =>
              /\ export.data = DataDict(heap, scored.out)
              /\ Len(export.data) = 1
              /\ profiles # <<>> => export.layout = "profiles"

\* A document whose first entry is a list of unscored mappings and whose
\* second entry is a list that starts with a scored one.
C27_Witness ==
    /\ export # NoExport
    /\ stage = "exported"
    /\ Len(export.data) = 2
    /\ export.data[1].value.t = "list" /\ export.data[1].value.l # <<>>
    /\ ~MarksProfiles(export.data[1].value)
    /\ MarksProfiles(export.data[2].value)
    /\ export.layout = "profiles"

\* The abstracts of the batch whose handling raises.
FailingItems == {i \in DOMAIN abstracts : PrepareRaises(abstracts[i])}

\* The number of profiles that the non-failing abstracts before the i-th give.
RECURSIVE ProfilesBefore(_)
ProfilesBefore(i) ==
    IF i <= 1 THEN 0
    ELSE ProfilesBefore(i - 1)
         + (IF i - 1 \in FailingItems THEN 0 ELSE Len(AuthorProfiles(abstracts[i - 1])))

\* C28: extract_and_rank_profiles goes through the whole batch: an abstract
\* whose handling raises is reported and skipped, and the profiles of every
\* other abstract, those after a failing one included, are all among the
\* profiles handed to score_profiles, in batch order.
C28_FailuresAreSkipped ==
    (stage \in {"scored", "exported"} /\ abstracts # <<>>) =>
        /\ warned = FailingItems
        /\ Ranked
        /\ Len(profiles) = ProfilesBefore(Len(abstracts) + 1)
        /\ Len(scored.out) = Len(profiles)
        /\ \A i \in DOMAIN abstracts \ FailingItems :
              \A j \in DOMAIN AuthorProfiles(abstracts[i]) :
                 /\ ProfilesBefore(i) + j \in DOMAIN profiles
                 /\ heap[profiles[ProfilesBefore(i) + j]] = AuthorProfiles(abstracts[i])[j]
                 /\ scored.copy_of[ProfilesBefore(i) + j] = profiles[ProfilesBefore(i) + j]

\* The second of three abstracts fails; the profiles of the first and of the
\* third are scored.
C28_Witness ==
    /\ stage = "scored"
    /\ Len(abstracts) = 3
    /\ warned = {2}
    /\ AuthorProfiles(abstracts[1]) # <<>>
    /\ AuthorProfiles(abstracts[3]) # <<>>
    /\ Len(scored.out) = Len(AuthorProfiles(abstracts[1])) + Len(AuthorProfiles(abstracts[3]))

\* ------------------------------------------------- the active provider

\* C29: after construction the handle and the provider identifier change only
\* in the fallback branch of extract, both together, to the handle just built
\* and its provider; a first attempt that succeeds and a pass that fails for
\* want of a fallback leave both as they were.
C29_ChangesOnlyByFallback ==
    /\ [][(pc # "new" /\ (model' # model \/ model_type' # model_type)) =>
             /\ pc = "consider" /\ pc' = "attempt2"
             /\ model' # model /\ model_type' # model_type
             /\ model_type' = fallback_model_type'
             /\ ProviderOf(model') = model_type']_vars
    /\ [][/\ (pc = "attempt1" /\ pc' = "idle") =>
                (result'.status = "Done" /\ UNCHANGED <<model, model_type>>)
          /\ (pc = "consider" /\ fallback_model_type' = "None") =>
                (pc' = "retry" /\ raised'.kind = "single" /\ UNCHANGED <<model, model_type>>)]_vars
    /\ [](pc \in {"attempt1", "consider"} => model_type = pass_start)

\* A call that failed in every pass for want of a fallback, the provider being
\* the one chosen at construction.
C29_Witness ==
    /\ result.status = "Failed"
    /\ result.error.kind = "single"
    /\ Len(passlog) = MaxAttempts
    /\ \A i \in DOMAIN passlog : passlog[i].outcome = "single"
    /\ model_type = pass_start
    /\ ProviderOf(model) = model_type

\* The last pass made two invocations, the second with the fallback handle.
FallbackAttemptFailed ==
    /\ passlog # <<>>
    /\ passlog[Len(passlog)].outcome = "combined"
    /\ Len(passlog[Len(passlog)].invoked) = 2

\* C30: when the fallback attempt of a pass fails the fallback provider stays
\* the active one, and the next pass and the next call start with it; when the
\* fallback handle cannot be built the active provider stays what it was.
C30_FallbackIsKept ==
    /\ [][/\ (pc = "attempt2" /\ pc' = "retry") =>
                /\ UNCHANGED <<model, model_type>>
                /\ model_type' = fallback_model_type
                /\ model_type' # pass_start
          /\ (pc = "retry" /\ pc' = "attempt1") =>
                (pass_start' = model_type /\ UNCHANGED <<model, model_type>>)
          /\ (pc = "idle" /\ pc' = "attempt1") =>
                (pass_start' = model_type /\ UNCHANGED <<model, model_type>>)
          /\ (pc = "retry" /\ pc' = "idle") => UNCHANGED <<model, model_type>>
          /\ (pc = "consider" /\ pc' = "retry") => UNCHANGED <<model, model_type>>]_vars
    /\ []((pc \in {"retry", "idle"} /\ FallbackAttemptFailed) =>
             /\ model_type = passlog[Len(passlog)].fallback
             /\ ProviderOf(model) = model_type
             /\ model_type # passlog[Len(passlog)].invoked[1])
    /\ []((pc = "attempt1" /\ passes >= 2 /\ Len(passlog[passes - 1].invoked) = 2) =>
             pass_start = passlog[passes - 1].fallback)

\* The second pass of a call begins with the provider the first pass fell back
\* to, which is not the provider chosen at construction.
C30_Witness ==
    /\ pc = "attempt1"
    /\ passes = 2
    /\ Len(passlog[1].invoked) = 2
    /\ passlog[1].outcome = "combined"
    /\ init_trace = <<[cls |-> "ChatOpenAI", ok |-> TRUE]>>
    /\ pass_start = "gemini"
    /\ model = "ChatGoogleGenerativeAI"

\* --------------------------------------------------------------------- C31
\* C31: in single-threaded use, whenever no operation is under way on a
\* constructed orchestrator (the constructor has returned, or an extract call
\* has returned or raised), the handle it holds is of the class built for the
\* provider its model_type names.
C31_HandleMatchesIdentifier ==
    pc = "idle" => /\ model \in Handles
                   /\ model_type \in Providers
                   /\ ProviderOf(model) = model_type

\* A call that swapped to the other provider has ended in failure, and one
\* call had completed before it.
C31_Witness ==
    /\ pc = "idle"
    /\ calls = 2
    /\ switches >= 1
    /\ result.status = "Failed"
    /\ model_type = "openai"
    /\ Len(init_trace) = 1

\* --------------------------------------------------------------------- C32
Mismatched(x) == x.model \in Handles /\ ProviderOf(x.model) # x.model_type

\* C32: when each concurrent extract call has an orchestrator of its own,
\* every attempt is run with a handle of the provider its identifier names.
\* (With one orchestrator for both calls a mismatched attempt is reachable:
\* C32_Witness.)
C32_OwnOrchestratorIsSafe ==
    ~shared => \A x \in ran : ~Mismatched(x)

\* Two calls on one orchestrator: an attempt has been run with the handle of
\* one provider and the identifier of the other, loaded while the other
\* call's swap was half done.
C32_Witness ==
    /\ shared
    /\ \E x \in ran : Mismatched(x)
    /\ \E t \in Threads : thr[t].pc = "store_type"

\* --------------------------------------------------------------------- C33
\* C33: whenever the brace scan of a text ends with the depth above zero, the
\* same scan run over the repaired candidate reaches depth zero at the
\* candidate's last character, and not before, outside any string literal.
C33_RepairedIsBalanced ==
    (Scanned /\ parse_out.scan.brace_count > 0) =>
        LET again == Scan(parse_out.json_str, 1)
        IN  /\ again.closed
            /\ again.brace_count = 0
            /\ ~again.in_string
            /\ again.end_idx = Len(parse_out.json_str)

\* --------------------------------------------------------------------- C34
\* C34: whenever json_to_excel writes the ranked-profile layout, the entry it
\* takes the rows from is one that marks the document as profile data (a
\* non-empty list whose first element is a mapping with probability_score) and
\* the rows written are the rows of that entry, also when the document has
\* several list-valued entries.
C34_RowsOfDetectedEntry ==
    (export # NoExport /\ export.layout = "profiles") =>
        /\ export.section \in DOMAIN export.data
        /\ MarksProfiles(export.data[export.section].value)
        /\ export.status = "ok" =>
              export.rows = RenderRows(export.data[export.section].value.l)

\* --------------------------------------------------------------------- C35
\* The entries of a profile other than probability_score and rank.
OtherFields == {"author_name", "title", "year", "keywords", "location"}

\* C35: the list returned by score_profiles is a permutation of the input
\* list: it has the same length, every input profile has exactly one record in
\* it and every record belongs to exactly one input profile, and a record
\* equals its input profile on every entry other than probability_score and
\* rank.
C35_OutputIsPermutation ==
    Ranked =>
        /\ Len(scored.out) = Len(profiles)
        /\ Len(scored.unsorted) = Len(profiles)
        /\ \A k \in DOMAIN profiles :
              /\ scored.copy_of[k] = profiles[k]
              /\ Cardinality({i \in DOMAIN scored.out :
                                 scored.out[i] = scored.unsorted[k]}) = 1
        /\ \A i \in DOMAIN scored.out :
              /\ Cardinality({k \in DOMAIN scored.unsorted :
                                 scored.unsorted[k] = scored.out[i]}) = 1
              /\ \A f \in OtherFields :
                    heap[scored.out[i]][f] = heap[profiles[InputPosition(i)]][f]

\* Three profiles were reordered: the record at the head of the output is the
\* copy of the last input, and two inputs are the same profile twice.
C35_Witness ==
    /\ Ranked
    /\ stage = "scored"
    /\ Len(scored.out) = 3
    /\ InputPosition(1) = 3
    /\ heap[profiles[1]] = heap[profiles[2]]
    /\ heap[profiles[1]].location # AbsentV

\* --------------------------------------------------------------------- C36
\* The records of a returned list, by value.
Records(h, ids) == [i \in DOMAIN ids |-> h[ids[i]]]

\* The heap with other values of probability_score and rank on every
\* dictionary: none at all, or numbers that would reverse the order.
Unstamped(h) ==
    [id \in DOMAIN h |-> [h[id] EXCEPT !.probability_score = AbsentV,
                                      !.rank = AbsentV]]

Restamped(h) ==
    [id \in DOMAIN h |-> [h[id] EXCEPT !.probability_score = IntV(id),
                                      !.rank = IntV(7)]]

\* C36: score_profiles applied to the list it returned gives the same
\* records in the same order, with the same scores and ranks; and the
\* result for a batch is the same whatever probability_score and rank values
\* its profiles came with.
C36_Idempotent ==
    Ranked =>
        LET first == Records(heap, scored.out)
            again == ScoreProfiles(heap, scored.out, current_year)
            bare == ScoreProfiles(Unstamped(heap), profiles, current_year)
            other == ScoreProfiles(Restamped(heap), profiles, current_year)
        IN  /\ Records(again.heap, again.out) = first
            /\ Records(bare.heap, bare.out) = first
            /\ Records(other.heap, other.out) = first

\* A batch with a profile that came with score 99 and rank 1 and whose rules
\* give 0, ranked behind a profile with a positive score.
C36_Witness ==
    /\ Ranked
    /\ stage = "scored"
    /\ Len(scored.out) >= 2
    /\ \E k \in DOMAIN profiles :
          /\ heap[profiles[k]].probability_score = IntV(99)
          /\ heap[scored.unsorted[k]].probability_score = IntV(0)
          /\ heap[scored.unsorted[k]].rank = IntV(Len(scored.out))
    /\ ScoreAt(1) > 0

====
